---- MODULE Spec2Model ----
(***************************************************************************)
(* A model of the order-signing engine of examples/sign_order.py           *)
(* (FastPolymarketSigner): construction, the start-up compatibility check  *)
(* and sign_order.                                                          *)
(*                                                                         *)
(* Values are modelled as the code computes them:                          *)
(*   - Python floats are IEEE-754 doubles: a sign, a 53-bit mantissa kept  *)
(*     as four 14-bit limbs (least significant first) and a binary         *)
(*     exponent; products are rounded to nearest, ties to even;            *)
(*   - byte strings are sequences of cells: a cell is one byte [b |-> n],  *)
(*     or an opaque block: [h |-> preimage] (the 32 bytes of keccak),      *)
(*     [a20 |-> id] (the 20 bytes of an address), [pub |-> key] (the 64    *)
(*     bytes of a public key), [rs |-> ...] (the 64 bytes r, s of a        *)
(*     signature), [text |-> s] (the UTF-8 bytes of a type string);        *)
(*   - keccak is collision free: a hash is the term of its preimage.       *)
(***************************************************************************)
EXTENDS Integers, Sequences, FiniteSets, TLC

(***************************************************************************)
(* IEEE-754 double arithmetic (the float operations of sign_order).        *)
(***************************************************************************)
LimbBits == 14
LimbBase == 16384
MantBits == 53

\* a function on 1..n as a sequence value, every element computed once
AsSeq(f) == SubSeq(f, 1, Len(f))

RECURSIVE SumTo(_, _, _)
\* f(lo) + ... + f(hi) for a function f on integers
SumTo(f, lo, hi) == IF lo > hi THEN 0 ELSE f[lo] + SumTo(f, lo + 1, hi)

\* limb k (from 1) of a limb sequence, 0 beyond its end
Limb(a, k) == IF k >= 1 /\ k <= Len(a) THEN a[k] ELSE 0

RECURSIVE Carry(_, _, _)
\* propagate carries through raw limb sums, least significant first
Carry(raw, k, c) ==
    IF k > Len(raw) THEN (IF c = 0 THEN << >> ELSE <<c>>)
    ELSE <<(raw[k] + c) % LimbBase>> \o Carry(raw, k + 1, (raw[k] + c) \div LimbBase)

\* exact product of two limb sequences
LimbMul(a, b) ==
    LET n == Len(a) + Len(b)
        raw == AsSeq([k \in 1..n |->
                        SumTo([i \in 1..Len(a) |-> a[i] * Limb(b, k + 1 - i)], 1, Len(a))])
    IN Carry(raw, 1, 0)

\* bit i (from 0) of a limb sequence
Bit(a, i) == IF i < 0 THEN 0 ELSE (Limb(a, (i \div LimbBits) + 1) \div (2 ^ (i % LimbBits))) % 2

\* number of significant bits
BitLen(a) ==
    LET nz == {k \in 1..Len(a) : a[k] # 0}
        top == CHOOSE k \in nz : \A j \in nz : j <= k
    IN IF nz = {} THEN 0
       ELSE LimbBits * (top - 1)
              + CHOOSE n \in 1..LimbBits : 2 ^ (n - 1) <= a[top] /\ a[top] < 2 ^ n

\* some bit below position i is set
Sticky(a, i) ==
    \/ \E k \in 1..(i \div LimbBits) : Limb(a, k) # 0
    \/ Limb(a, (i \div LimbBits) + 1) % (2 ^ (i % LimbBits)) # 0

\* the nl limbs holding bits from.. of a: a shifted right by from bits
Shr(a, from, nl) ==
    LET q == from \div LimbBits
        r == from % LimbBits
    IN AsSeq([k \in 1..nl |->
                (Limb(a, k + q) \div (2 ^ r))
                  + (Limb(a, k + q + 1) % (2 ^ r)) * (2 ^ (LimbBits - r))])

IsZero(a) == \A k \in 1..Len(a) : a[k] = 0

\* a + 1, on 4 limbs (the caller renormalises 2^53)
Inc(a) == LET r == Carry([k \in 1..Len(a) |-> IF k = 1 THEN a[k] + 1 ELSE a[k]], 1, 0)
          IN AsSeq([k \in 1..4 |-> Limb(r, k)])

ZeroLimbs == <<0, 0, 0, 0>>
NaN == [cls |-> "nan", sign |-> 0, m |-> ZeroLimbs, e |-> 0]
Inf(s) == [cls |-> "inf", sign |-> s, m |-> ZeroLimbs, e |-> 0]
FZero(s) == [cls |-> "fin", sign |-> s, m |-> ZeroLimbs, e |-> 0]

\* m * 2^e rounded to a double: nearest, ties to even
RoundToDouble(s, p, e) ==
    LET L == BitLen(p)
        sh == L - MantBits
    IN IF L = 0 THEN FZero(s)
       ELSE IF sh <= 0 THEN [cls |-> "fin", sign |-> s, m |-> Shr(p, 0, 4), e |-> e]
       ELSE LET kept == Shr(p, sh, 4)
                up == Bit(p, sh - 1) = 1 /\ (Sticky(p, sh - 1) \/ Bit(p, sh) = 1)
                m1 == IF up THEN Inc(kept) ELSE kept
            IN IF BitLen(m1) > MantBits
               THEN [cls |-> "fin", sign |-> s, m |-> Shr(m1, 1, 4), e |-> e + sh + 1]
               ELSE [cls |-> "fin", sign |-> s, m |-> m1, e |-> e + sh]

\* x * y on floats
FMul(x, y) ==
    LET s == (x.sign + y.sign) % 2
    IN IF x.cls = "nan" \/ y.cls = "nan" THEN NaN
       ELSE IF x.cls = "inf" \/ y.cls = "inf"
            THEN (IF (x.cls = "fin" /\ IsZero(x.m)) \/ (y.cls = "fin" /\ IsZero(y.m))
                  THEN NaN ELSE Inf(s))
       ELSE RoundToDouble(s, LimbMul(x.m, y.m), x.e + y.e)

\* the integer n >= 0 as limbs
RECURSIVE NatLimbs(_)
NatLimbs(n) == IF n = 0 THEN << >> ELSE <<n % LimbBase>> \o NatLimbs(n \div LimbBase)

\* float(n) of a Python int 0 <= n < 2^31 (exact)
FloatOfInt(n) == RoundToDouble(0, NatLimbs(n), 0)

\* the limbs as an integer (below 2^31)
RECURSIVE LimbsNat(_, _)
LimbsNat(a, k) == IF k > Len(a) THEN 0 ELSE a[k] + LimbBase * LimbsNat(a, k + 1)

\* floor(m * 2^e) for limbs m
FloorShift(m, e) ==
    IF e >= 0 THEN LimbsNat(m, 1) * (2 ^ e)
    ELSE LimbsNat(Shr(m, 0 - e, 3), 1)

\* int(x) of a float: truncation toward zero; NaN and the infinities raise
IntOfFloat(x) ==
    IF x.cls = "nan" THEN [err |-> "ValueError", v |-> 0]
    ELSE IF x.cls = "inf" THEN [err |-> "OverflowError", v |-> 0]
    ELSE [err |-> "none",
          v |-> IF x.sign = 1 THEN 0 - FloorShift(x.m, x.e) ELSE FloorShift(x.m, x.e)]

\* -1, 0 or 1 as the limbs a are below, equal to or above the limbs b
LimbCmp(a, b) ==
    LET n == IF Len(a) > Len(b) THEN Len(a) ELSE Len(b)
        diff == {k \in 1..n : Limb(a, k) # Limb(b, k)}
        top == CHOOSE k \in diff : \A j \in diff : j <= k
    IN IF diff = {} THEN 0 ELSE IF Limb(a, top) > Limb(b, top) THEN 1 ELSE -1

\* a + b on limbs
LimbAdd(a, b) ==
    LET n == IF Len(a) > Len(b) THEN Len(a) ELSE Len(b)
    IN Carry(AsSeq([k \in 1..n |-> Limb(a, k) + Limb(b, k)]), 1, 0)

\* a - b on limbs, for a >= b
LimbSub(a, b) ==
    LET n == IF Len(a) > Len(b) THEN Len(a) ELSE Len(b)
        r == Carry(AsSeq([k \in 1..n |-> Limb(a, k) + (LimbBase - 1 - Limb(b, k))]), 1, 1)
    IN SubSeq(r, 1, n)

\* a * 2^bits on limbs
Shl(a, bits) ==
    (IF bits < LimbBits THEN << >> ELSE AsSeq([k \in 1..(bits \div LimbBits) |-> 0]))
      \o LimbMul(a, <<2 ^ (bits % LimbBits)>>)

RECURSIVE DigitSearch(_, _, _, _)
\* the largest g < LimbBase with g * d <= r, found from the top bit down
DigitSearch(r, d, bit, g) ==
    IF bit < 0 THEN g
    ELSE IF LimbCmp(LimbMul(d, <<g + 2 ^ bit>>), r) <= 0
         THEN DigitSearch(r, d, bit - 1, g + 2 ^ bit)
         ELSE DigitSearch(r, d, bit - 1, g)

RECURSIVE LongDiv(_, _, _, _, _)
\* one limb of the quotient: the digit g of the running remainder r1
LongDivDigit(n, d, k, r1, q, g) ==
    IF g < 0 THEN [q |-> q, r |-> r1]
    ELSE LongDiv(n, d, k - 1, SubSeq(LimbSub(r1, LimbMul(d, <<g>>)), 1, Len(d)), <<g>> \o q)

\* quotient and remainder of the limbs n by the limbs d # 0, limb k downward
LongDiv(n, d, k, r, q) ==
    IF k = 0 \/ Len(r) < 0 \/ Len(q) < 0 THEN [q |-> q, r |-> r]
    ELSE LongDivDigit(n, d, k, <<n[k]>> \o r, q, DigitSearch(<<n[k]>> \o r, d, LimbBits - 1, 0))

\* the quotient q and remainder r as the double nearest to (q + r/d) * 2^e
FDivRounded(s, qr, e) ==
    RoundToDouble(s, LimbAdd(Shl(qr.q, 1), IF IsZero(qr.r) THEN << >> ELSE <<1>>), e - 1)

RECURSIVE ShortDiv(_, _, _, _, _)
\* quotient and remainder of the limbs n by the one limb d1 # 0, limb k downward
ShortDiv(n, d1, k, r, q) ==
    IF k = 0 THEN [q |-> q, r |-> <<r>>]
    ELSE ShortDiv(n, d1, k - 1, (r * LimbBase + n[k]) % d1,
                  <<(r * LimbBase + n[k]) \div d1>> \o q)

\* n / d * 2^e for limbs n and d
FDivShifted(s, n, d, e) ==
    FDivRounded(s, IF BitLen(d) <= LimbBits THEN ShortDiv(n, d[1], Len(n), 0, << >>)
                   ELSE LongDiv(n, d, Len(n), << >>, << >>), e)

\* x / y on floats
FDiv(x, y) ==
    LET s == (x.sign + y.sign) % 2
    IN IF x.cls = "nan" \/ y.cls = "nan" THEN NaN
       ELSE IF y.cls = "inf" THEN (IF x.cls = "inf" THEN NaN ELSE FZero(s))
       ELSE IF x.cls = "inf" THEN Inf(s)
       ELSE IF IsZero(y.m) THEN [cls |-> "raise", sign |-> s, m |-> ZeroLimbs, e |-> 0]
       ELSE IF IsZero(x.m) THEN FZero(s)
       ELSE FDivShifted(s, Shl(x.m, 56 + BitLen(y.m) - BitLen(x.m)), y.m,
                        x.e - y.e - (56 + BitLen(y.m) - BitLen(x.m)))

\* the magnitudes of two finite floats on a common exponent
Aligned(x, y) ==
    LET e == IF x.e < y.e THEN x.e ELSE y.e
    IN [e |-> e, x |-> Shl(x.m, x.e - e), y |-> Shl(y.m, y.e - e)]

\* -1, 0 or 1 as the finite float x is below, equal to or above the finite y
FCmp(x, y) ==
    LET zx == IsZero(x.m)
        zy == IsZero(y.m)
        mag == LimbCmp(Aligned(x, y).x, Aligned(x, y).y)
    IN IF zx /\ zy THEN 0
       ELSE IF zx THEN (IF y.sign = 1 THEN 1 ELSE -1)
       ELSE IF zy THEN (IF x.sign = 1 THEN -1 ELSE 1)
       ELSE IF x.sign # y.sign THEN (IF x.sign = 1 THEN -1 ELSE 1)
       ELSE IF x.sign = 1 THEN 0 - mag ELSE mag

\* x < y, x <= y, x > y, x >= y on floats: false when either is NaN
FLt(x, y) ==
    /\ x.cls # "nan" /\ y.cls # "nan"
    /\ IF x.cls = "inf" THEN x.sign = 1 /\ ~(y.cls = "inf" /\ y.sign = 1)
       ELSE IF y.cls = "inf" THEN y.sign = 0
       ELSE FCmp(x, y) < 0
FGt(x, y) == FLt(y, x)
FLe(x, y) == x.cls # "nan" /\ y.cls # "nan" /\ ~FLt(y, x)
FGe(x, y) == FLe(y, x)

\* x + y on floats
FAdd(x, y) ==
    IF x.cls = "nan" \/ y.cls = "nan" THEN NaN
    ELSE IF x.cls = "inf"
         THEN (IF y.cls = "inf" /\ y.sign # x.sign THEN NaN ELSE x)
    ELSE IF y.cls = "inf" THEN y
    ELSE LET a == Aligned(x, y)
             c == LimbCmp(a.x, a.y)
         IN IF x.sign = y.sign THEN RoundToDouble(x.sign, LimbAdd(a.x, a.y), a.e)
            ELSE IF c = 0 THEN FZero(0)
            ELSE IF c > 0 THEN RoundToDouble(x.sign, LimbSub(a.x, a.y), a.e)
            ELSE RoundToDouble(y.sign, LimbSub(a.y, a.x), a.e)

\* -x, x - y and abs(x) on floats
FNeg(x) == IF x.cls = "nan" THEN x ELSE [x EXCEPT !.sign = 1 - x.sign]
FSub(x, y) == FAdd(x, FNeg(y))
FAbs(x) == IF x.cls = "nan" THEN x ELSE [x EXCEPT !.sign = 0]

\* the limbs p * 2^e >= 0 rounded to an integer: nearest, ties to even
RoundShift(p, e) ==
    IF e >= 0 THEN FloorShift(p, e)
    ELSE FloorShift(p, e)
           + (IF Bit(p, (0 - e) - 1) = 1
                 /\ (Sticky(p, (0 - e) - 1) \/ Bit(p, 0 - e) = 1) THEN 1 ELSE 0)

\* round(x) of a float as a Python int
PyRound(x) ==
    IF x.cls = "nan" THEN [err |-> "ValueError", v |-> 0]
    ELSE IF x.cls = "inf" THEN [err |-> "OverflowError", v |-> 0]
    ELSE [err |-> "none",
          v |-> IF x.sign = 1 THEN 0 - RoundShift(x.m, x.e) ELSE RoundShift(x.m, x.e)]

\* math.ceil(x) of a float x >= 0
PyCeil(x) ==
    IF x.cls = "nan" THEN [err |-> "ValueError", v |-> 0]
    ELSE IF x.cls = "inf" THEN [err |-> "OverflowError", v |-> 0]
    ELSE [err |-> "none",
          v |-> FloorShift(x.m, x.e) + (IF x.e < 0 /\ Sticky(x.m, 0 - x.e) THEN 1 ELSE 0)]

\* float(s) of the decimal string s = digits / 10^scale, digits >= 0
FloatOfDecimal(digits, scale) == FDiv(FloatOfInt(digits), FloatOfInt(10 ^ scale))

\* float(f"{x:.3f}") of a float x >= 0: the nearest thousandth, as a float
Format3(x) ==
    IF x.cls # "fin" THEN x
    ELSE FloatOfDecimal(RoundShift(LimbMul(x.m, NatLimbs(1000)), x.e), 3)

(***************************************************************************)
(* Python integers and byte strings.  A Python int is kept as a sign and   *)
(* its magnitude in base 256, most significant byte first, without leading *)
(* zeros, so that values up to 2^256 and beyond are exact.                 *)
(***************************************************************************)
\* n copies of x
Rep(x, n) == AsSeq([i \in 1..n |-> x])

RECURSIVE NatBytes(_)
\* the magnitude bytes of a natural number
NatBytes(n) == IF n = 0 THEN << >> ELSE NatBytes(n \div 256) \o <<n % 256>>

\* a machine-size integer as a Python int
PyInt(n) == IF n < 0 THEN [neg |-> TRUE, mag |-> NatBytes(0 - n)]
            ELSE [neg |-> FALSE, mag |-> NatBytes(n)]

Digits == <<"0", "1", "2", "3", "4", "5", "6", "7", "8", "9">>
IsDigit(c) == \E i \in 1..10 : Digits[i] = c
DigitVal(c) == (CHOOSE i \in 1..10 : Digits[i] = c) - 1

\* the digits of d in groups of four: its base-10000 limbs, most significant first
Groups(d) ==
    LET n == Len(d)
        g == (n + 3) \div 4
        at(i) == IF i <= 4 * g - n THEN 0 ELSE DigitVal(d[i - (4 * g - n)])
    IN AsSeq([k \in 1..g |->
                1000 * at(4 * k - 3) + 100 * at(4 * k - 2) + 10 * at(4 * k - 1) + at(4 * k)])

\* 10000^j mod 65536 for j = 0..3; 10000^j is a multiple of 65536 from j = 4 on
Pow10000Mod65536 == <<1, 10000, 57600, 4096>>

\* the number written by the first k limbs of g, modulo 65536: only the last
\* four of them count
PrefixMod65536(g, k) ==
    LET lo == IF k > 4 THEN k - 3 ELSE 1
    IN SumTo([i \in lo..k |-> (g[i] * Pow10000Mod65536[k - i + 1]) % 65536], lo, k) % 65536

\* long division of base-10000 limbs by 65536: <<quotient limbs, remainder>>
DivGroups(g) ==
    <<AsSeq([k \in 1..Len(g) |-> (PrefixMod65536(g, k - 1) * 10000 + g[k]) \div 65536]),
      PrefixMod65536(g, Len(g))>>

RECURSIVE GroupBytes(_)
\* the base-256 digits of base-10000 limbs, two per division, most significant first
GroupBytes(g) ==
    IF \A k \in 1..Len(g) : g[k] = 0 THEN << >>
    ELSE LET qr == DivGroups(g) IN GroupBytes(qr[1]) \o <<qr[2] \div 256, qr[2] % 256>>

\* the magnitude bytes of a decimal digit string: no leading zero byte
DecBytes(d) ==
    LET bytes == GroupBytes(Groups(d))
        nz == {k \in 1..Len(bytes) : bytes[k] # 0}
    IN IF nz = {} THEN << >>
       ELSE SubSeq(bytes, CHOOSE k \in nz : \A j \in nz : k <= j, Len(bytes))

IsSpace(c) == c \in {" ", "\t", "\n"}

\* s without its leading and trailing whitespace
Strip(s) ==
    LET ink == {k \in 1..Len(s) : ~IsSpace(s[k])}
    IN IF ink = {} THEN << >>
       ELSE SubSeq(s, CHOOSE k \in ink : \A j \in ink : k <= j,
                      CHOOSE k \in ink : \A j \in ink : j <= k)

NotUnderscore(c) == c # "_"
DropUnderscores(s) == SelectSeq(s, NotUnderscore)

\* int(s) of a character string, base 10: surrounding whitespace, one sign, digits
\* with single underscores between them; anything else is a ValueError
ParseInt(s) ==
    LET t == Strip(s)
        signed == Len(t) > 0 /\ t[1] \in {"+", "-"}
        body == IF signed THEN Tail(t) ELSE t
        wellFormed ==
            /\ Len(body) > 0
            /\ \A k \in 1..Len(body) : IsDigit(body[k]) \/ body[k] = "_"
            /\ IsDigit(body[1]) /\ IsDigit(body[Len(body)])
            /\ \A k \in 1..(Len(body) - 1) : ~(body[k] = "_" /\ body[k + 1] = "_")
    IN IF ~wellFormed THEN [err |-> "ValueError", v |-> PyInt(0)]
       ELSE LET mag == DecBytes(DropUnderscores(body))
            IN [err |-> "none", v |-> [neg |-> signed /\ t[1] = "-" /\ mag # << >>, mag |-> mag]]

\* to_bytes that keeps the low four bytes of the value and raises nothing
ToBytes32_Low4(x) ==
    [err |-> "none",
     bytes |-> AsSeq([i \in 1..32 |->
                        IF i <= 28 \/ i <= 32 - Len(x.mag) THEN [b |-> 0]
                        ELSE [b |-> x.mag[i - (32 - Len(x.mag))]]])]

\* x.to_bytes(32, 'big') of a Python int: one byte cell per byte
ToBytes32(x) ==
    IF x.neg THEN [err |-> "OverflowError", bytes |-> << >>]
    ELSE IF Len(x.mag) > 32 THEN [err |-> "OverflowError", bytes |-> << >>]
    ELSE [err |-> "none",
          bytes |-> AsSeq([i \in 1..32 |->
                             IF i <= 32 - Len(x.mag) THEN [b |-> 0]
                             ELSE [b |-> x.mag[i - (32 - Len(x.mag))]]])]

\* the cells of s that have field f
CellsWith(s, f) == Cardinality({i \in 1..Len(s) : f \in DOMAIN s[i]})

ByteLen(s) ==
    CellsWith(s, "b") + 32 * CellsWith(s, "h") + 20 * CellsWith(s, "a20")
      + 64 * CellsWith(s, "pub") + 64 * CellsWith(s, "rs")

\* value.rjust(32, b'\0')
RJust32(s) == Rep([b |-> 0], 32 - ByteLen(s)) \o s

\* keccak of a byte string, and of a text
keccak(s) == [h |-> s]
keccakText(t) == [h |-> <<[text |-> t]>>]


(***************************************************************************)
(* Addresses, keys and signatures.                                         *)
(* An address string is [addr |-> id, style |-> ...]: the 20 bytes it      *)
(* names and how it is written; a funder argument may also be None, empty  *)
(* or malformed.  secp256k1 is modelled by what a signature binds: the key,*)
(* the digest and the recovery id.                                          *)
(***************************************************************************)
CHAIN_ID == 137
EXCHANGE_CONTRACT ==
    [addr |-> [named |-> "0x4bFb41d5B3570DeFd03C39a9A4D8dE6Bd8B8982E"], style |-> "checksum"]
ZeroAddress == [addr |-> [named |-> "0x0000000000000000000000000000000000000000"],
                style |-> "checksum"]

\* eth_utils.to_checksum_address: the same 20 bytes in checksum spelling
to_checksum_address(a) ==
    IF a.style \in {"malformed", "empty", "none"}
    THEN [err |-> "ValueError", v |-> ZeroAddress]
    ELSE [err |-> "none", v |-> [addr |-> a.addr, style |-> "checksum"]]

\* eth_utils.to_canonical_address: the 20 bytes of an address string
to_canonical_address(a) ==
    IF a.addr = ZeroAddress.addr THEN Rep([b |-> 0], 20) ELSE <<[a20 |-> a.addr]>>

HexChars == {"0", "1", "2", "3", "4", "5", "6", "7", "8", "9",
             "a", "b", "c", "d", "e", "f", "A", "B", "C", "D", "E", "F"}

\* the hex digit in lower case
LowerHex(c) ==
    CASE c = "A" -> "a" [] c = "B" -> "b" [] c = "C" -> "c"
      [] c = "D" -> "d" [] c = "E" -> "e" [] c = "F" -> "f" [] OTHER -> c

\* coincurve PrivateKey.from_hex: bytes.fromhex, then a scalar in 1..n-1,
\* left-padded to 32 bytes (keys of the model stay below the group order)
from_hex(hex) ==
    LET sig == {k \in 1..Len(hex) : hex[k] # "0"}
    IN IF Len(hex) % 2 = 1 \/ \E k \in 1..Len(hex) : hex[k] \notin HexChars
       THEN [err |-> "ValueError", key |-> << >>]
       ELSE IF sig = {} \/ Len(hex) - (CHOOSE k \in sig : \A j \in sig : k <= j) + 1 > 64
       THEN [err |-> "ValueError", key |-> << >>]
       ELSE [err |-> "none",
             key |-> AsSeq([i \in 1..64 |->
                              IF i <= 64 - Len(hex) THEN "0"
                              ELSE LowerHex(hex[i - (64 - Len(hex))])])]

\* private_key.public_key.format(compressed=False)[1:]
pub_key_bytes(key) == <<[pub |-> key]>>

\* keccak(...)[-20:] as an address
Low20(hash) == [addr |-> [lo20 |-> hash], style |-> "bytes"]

\* the address of a private key (code lines 37-38)
AddressOfKey(key) == to_checksum_address(Low20(keccak(pub_key_bytes(key)))).v

\* coincurve sign_recoverable(digest, hasher=None): r and s (64 bytes) and the
\* recovery id as 65th byte
sign_recoverable(key, digest, recid) ==
    <<[rs |-> [key |-> key, digest |-> digest, recid |-> recid]], [b |-> recid]>>

\* recovery of the signing address from a digest and a 65-byte signature
\* (eth_account Account.recover_message on the hashed message): v is taken as
\* 27/28 or 0/1; a signature over another digest or with the other recovery id
\* recovers some unrelated address
RecoverAddress(digest, sig) ==
    LET v == sig[2].b
        std == IF v \in {27, 28} THEN v - 27 ELSE v
    IN IF std \notin {0, 1} THEN [err |-> "ValueError", v |-> ZeroAddress]
       ELSE IF sig[1].rs.digest = digest /\ sig[1].rs.recid = std
       THEN [err |-> "none", v |-> AddressOfKey(sig[1].rs.key)]
       ELSE [err |-> "none",
             v |-> [addr |-> [unrelated |-> <<digest, sig>>], style |-> "checksum"]]


(***************************************************************************)
(* FastPolymarketSigner.sign_order (code lines 107-169).                   *)
(***************************************************************************)
DomainTypeString ==
    "EIP712Domain(string name,string version,uint256 chainId,address verifyingContract)"
\* the type string before the fix of line 55: feeRate for feeRateBps
OrderTypeString_feeRate ==
    "Order(uint256 salt,address maker,address signer,address taker,uint256 tokenId,uint256 makerAmount,uint256 takerAmount,uint256 expiration,uint256 nonce,uint256 feeRate,uint8 side,uint8 signatureType)"
OrderTypeString ==
    "Order(uint256 salt,address maker,address signer,address taker,uint256 tokenId,uint256 makerAmount,uint256 takerAmount,uint256 expiration,uint256 nonce,uint256 feeRateBps,uint8 side,uint8 signatureType)"

\* str(x).upper() == "BUY" for the side values of the model
UpperIsBuy(side) == "str" \in DOMAIN side /\ side.str \in {"BUY", "buy", "Buy"}

\* the test of line 111: side == 0 or str(side).upper() == "BUY"
IsBuy(side) == ("int" \in DOMAIN side /\ side.int = 0) \/ UpperIsBuy(side)

\* 1_000_000 as the float it is multiplied as
Million == FloatOfInt(1000000)

\* int(size * price * 1_000_000) and int(size * 1_000_000)
ScaledNotional(order_args) == IntOfFloat(FMul(FMul(order_args.size, order_args.price), Million))
ScaledSize(order_args) == IntOfFloat(FMul(order_args.size, Million))

\* lines 111-120: the two amounts by side
maker_amount(order_args) ==
    IF IsBuy(order_args.side) THEN ScaledNotional(order_args) ELSE ScaledSize(order_args)
\* taker_amount without the exchange of roles of lines 119-120
taker_amount_NotSwapped(order_args) == ScaledSize(order_args)

taker_amount(order_args) ==
    IF IsBuy(order_args.side) THEN ScaledSize(order_args) ELSE ScaledNotional(order_args)

\* the first error of a sequence of results, "none" if there is none
FirstErr(rs) ==
    LET bad == {k \in 1..Len(rs) : rs[k].err # "none"}
    IN IF bad = {} THEN "none" ELSE rs[CHOOSE k \in bad : \A j \in bad : k <= j].err

\* the concatenation of line 125: the type hash and the twelve words, or the
\* first error of a to_bytes
PackWords(order_type_hash, words) ==
    IF FirstErr(words) # "none" THEN [err |-> FirstErr(words), bytes |-> << >>]
    ELSE [err |-> "none",
          bytes |-> <<order_type_hash>> \o words[1].bytes \o words[2].bytes
                      \o words[3].bytes \o words[4].bytes \o words[5].bytes
                      \o words[6].bytes \o words[7].bytes \o words[8].bytes
                      \o words[9].bytes \o words[10].bytes \o words[11].bytes
                      \o words[12].bytes]

\* encoded_data with the words of the two amounts exchanged
encoded_data_Swapped(self, salt, token_id_int, maker_amt, taker_amt, side_int) ==
    PackWords(self.order_type_hash,
              <<ToBytes32(PyInt(salt)),
                [err |-> "none", bytes |-> self.maker_word],
                [err |-> "none", bytes |-> self.signer_word],
                [err |-> "none", bytes |-> self.zero_word],
                ToBytes32(token_id_int),
                ToBytes32(PyInt(taker_amt)),
                ToBytes32(PyInt(maker_amt)),
                ToBytes32(PyInt(0)),
                ToBytes32(PyInt(0)),
                ToBytes32(PyInt(0)),
                ToBytes32(PyInt(side_int)),
                ToBytes32(PyInt(self.signature_type))>>)

\* lines 125-139: the packed buffer
encoded_data(self, salt, token_id_int, maker_amt, taker_amt, side_int) ==
    PackWords(self.order_type_hash,
              <<ToBytes32(PyInt(salt)),
                [err |-> "none", bytes |-> self.maker_word],
                [err |-> "none", bytes |-> self.signer_word],
                [err |-> "none", bytes |-> self.zero_word],
                ToBytes32(token_id_int),
                ToBytes32(PyInt(maker_amt)),
                ToBytes32(PyInt(taker_amt)),
                ToBytes32(PyInt(0)),
                ToBytes32(PyInt(0)),
                ToBytes32(PyInt(0)),
                ToBytes32(PyInt(side_int)),
                ToBytes32(PyInt(self.signature_type))>>)

\* order_digest with the domain separator and the struct hash exchanged
order_digest_Swapped(self, encoded) ==
    keccak(<<[b |-> 25], [b |-> 1]>> \o <<keccak(encoded)>> \o <<self.domain_separator>>)

\* line 142
order_digest(self, encoded) ==
    keccak(<<[b |-> 25], [b |-> 1]>> \o <<self.domain_separator>> \o <<keccak(encoded)>>)

\* lines 148-150: the V-value fix on the 65-byte signature
\* the signature as the curve library returns it, without lines 148-150
v_fix_Identity(signature_bytes) == signature_bytes

v_fix(signature_bytes) ==
    IF signature_bytes[2].b < 27
    THEN <<signature_bytes[1], [b |-> signature_bytes[2].b + 27]>>
    ELSE signature_bytes

\* the wrapper with the strings of the two amounts exchanged
PolySignedOrder_AmountsExchanged(self, order_args, salt, maker_amt, taker_amt, side_str, sig_mutable) ==
    [salt |-> salt,
     maker |-> self.maker_address,
     signer |-> self.signer_address,
     taker |-> ZeroAddress,
     tokenId |-> order_args.token_id,
     makerAmount |-> ToString(taker_amt),
     takerAmount |-> ToString(maker_amt),
     expiration |-> "0",
     nonce |-> "0",
     feeRateBps |-> "0",
     side |-> side_str,
     signatureType |-> self.signature_type,
     signature |-> [prefix |-> "0x", hex |-> sig_mutable]]

\* the wrapper with the signature as bare hex and the nonce taken from the salt
PolySignedOrder_Bare(self, order_args, salt, maker_amt, taker_amt, side_str, sig_mutable) ==
    [salt |-> salt,
     maker |-> self.maker_address,
     signer |-> self.signer_address,
     taker |-> ZeroAddress,
     tokenId |-> order_args.token_id,
     makerAmount |-> ToString(maker_amt),
     takerAmount |-> ToString(taker_amt),
     expiration |-> "0",
     nonce |-> ToString(salt),
     feeRateBps |-> "0",
     side |-> side_str,
     signatureType |-> self.signature_type,
     signature |-> [prefix |-> "", hex |-> sig_mutable]]

\* lines 155-169: the returned wrapper
PolySignedOrder(self, order_args, salt, maker_amt, taker_amt, side_str, sig_mutable) ==
    [salt |-> salt,
     maker |-> self.maker_address,
     signer |-> self.signer_address,
     taker |-> ZeroAddress,
     tokenId |-> order_args.token_id,
     makerAmount |-> ToString(maker_amt),
     takerAmount |-> ToString(taker_amt),
     expiration |-> "0",
     nonce |-> "0",
     feeRateBps |-> "0",
     side |-> side_str,
     signatureType |-> self.signature_type,
     signature |-> [prefix |-> "0x", hex |-> sig_mutable]]

\* side_int from the integer representation alone
side_int_RawInt(side) == IF "int" \in DOMAIN side /\ side.int = 0 THEN 0 ELSE 1
\* lines 112-113 and 117-118
side_int(side) == IF IsBuy(side) THEN 0 ELSE 1
\* side_str as the decimal string of side_int
side_str_Digits(side) == IF IsBuy(side) THEN "0" ELSE "1"
side_str(side) == IF IsBuy(side) THEN "BUY" ELSE "SELL"

\* a call that raised err, with what it had computed
Raised(err, order_args, t, maker_amt, taker_amt) ==
    [err |-> err, side_int |-> side_int(order_args.side), maker_amount |-> maker_amt,
     taker_amount |-> taker_amt, salt |-> t, encoded_data |-> << >>, digest |-> << >>,
     signature_bytes |-> << >>, order |-> << >>]

\* lines 148-169: the V-value fix and the returned order
Returned(self, order_args, t, maker_amt, taker_amt, encoded, digest, signature_bytes) ==
    [err |-> "none", side_int |-> side_int(order_args.side), maker_amount |-> maker_amt,
     taker_amount |-> taker_amt, salt |-> t, encoded_data |-> encoded,
     digest |-> <<digest>>, signature_bytes |-> signature_bytes,
     order |-> <<PolySignedOrder(self, order_args, t, maker_amt, taker_amt,
                                 side_str(order_args.side), v_fix(signature_bytes))>>]

\* SignDigest signing the struct hash instead of the digest
SignDigest_StructHash(self, order_args, t, recid, maker_amt, taker_amt, encoded, digest) ==
    Returned(self, order_args, t, maker_amt, taker_amt, encoded, digest,
             sign_recoverable(self.private_key, keccak(encoded), recid))

\* lines 142-145: hash the buffer and sign the digest; no statement tests
\* self._private_key, and the method call on None raises AttributeError
SignDigest(self, order_args, t, recid, maker_amt, taker_amt, encoded, digest) ==
    IF self.private_key = << >>
    THEN Raised("AttributeError", order_args, t, maker_amt, taker_amt)
    ELSE Returned(self, order_args, t, maker_amt, taker_amt, encoded, digest,
                  sign_recoverable(self.private_key, digest, recid))

\* lines 125-142: the buffer, or the exception of a to_bytes
SignPacked(self, order_args, t, recid, maker_amt, taker_amt, enc) ==
    IF enc.err # "none" THEN Raised(enc.err, order_args, t, maker_amt, taker_amt)
    ELSE SignDigest(self, order_args, t, recid, maker_amt, taker_amt, enc.bytes,
                    order_digest(self, enc.bytes))

\* lines 109-122: the parsed token id and the two amounts, or the first
\* exception of their conversions
SignParsed(self, order_args, t, recid, tok, mk, tk) ==
    IF FirstErr(<<tok, mk, tk>>) # "none"
    THEN Raised(FirstErr(<<tok, mk, tk>>), order_args, t, 0, 0)
    ELSE SignPacked(self, order_args, t, recid, mk.v, tk.v,
                    encoded_data(self, t, tok.v, mk.v, tk.v, side_int(order_args.side)))

\* sign_order: the call's outcome, with the values it computed on the way.
\* t is the clock reading int(time.time() * 1000), recid the recovery id the
\* curve arithmetic yields for this key and digest.
sign_order(self, order_args, t, recid) ==
    SignParsed(self, order_args, t, recid, ParseInt(order_args.token_id),
               maker_amount(order_args), taker_amount(order_args))

(***************************************************************************)
(* The reference path of _verify_compatibility: the structured-data        *)
(* encoder (eth_account encode_typed_data) applied to the schema and the   *)
(* message of code lines 79-95.                                            *)
(***************************************************************************)
DomainSchema ==
    <<[name |-> "name", type |-> "string"], [name |-> "version", type |-> "string"],
      [name |-> "chainId", type |-> "uint256"],
      [name |-> "verifyingContract", type |-> "address"]>>

\* the Order schema of line 83; fee is the name of its fee field ("feeRateBps"
\* in the code)
OrderSchema(fee) ==
    <<[name |-> "salt", type |-> "uint256"], [name |-> "maker", type |-> "address"],
      [name |-> "signer", type |-> "address"], [name |-> "taker", type |-> "address"],
      [name |-> "tokenId", type |-> "uint256"], [name |-> "makerAmount", type |-> "uint256"],
      [name |-> "takerAmount", type |-> "uint256"], [name |-> "expiration", type |-> "uint256"],
      [name |-> "nonce", type |-> "uint256"], [name |-> fee, type |-> "uint256"],
      [name |-> "side", type |-> "uint8"], [name |-> "signatureType", type |-> "uint8"]>>

RECURSIVE JoinFields(_, _)
\* "type name,type name,..." from field k on
JoinFields(fields, k) ==
    IF k > Len(fields) THEN ""
    ELSE fields[k].type \o " " \o fields[k].name
           \o (IF k < Len(fields) THEN "," ELSE "") \o JoinFields(fields, k + 1)

\* EIP-712 encodeType
encode_type(primary, fields) == primary \o "(" \o JoinFields(fields, 1) \o ")"

\* EIP-712 encoding of one member value
encode_field(type, v) ==
    IF type = "string" THEN [err |-> "none", bytes |-> <<keccakText(v)>>]
    ELSE IF type = "address"
    THEN [err |-> "none", bytes |-> RJust32(to_canonical_address(v))]
    ELSE IF type = "uint8" /\ (v.neg \/ Len(v.mag) > 1)
    THEN [err |-> "EncodingError", bytes |-> << >>]
    ELSE IF ToBytes32(v).err # "none" THEN [err |-> "EncodingError", bytes |-> << >>]
    ELSE ToBytes32(v)

RECURSIVE EncodeMembers(_, _, _)
EncodeMembers(fields, msg, k) ==
    IF k > Len(fields) THEN << >>
    ELSE <<IF fields[k].name \in DOMAIN msg THEN encode_field(fields[k].type, msg[fields[k].name])
           ELSE [err |-> "EncodingError", bytes |-> << >>]>>
           \o EncodeMembers(fields, msg, k + 1)

RECURSIVE ConcatBytes(_, _)
ConcatBytes(parts, k) ==
    IF k > Len(parts) THEN << >> ELSE parts[k].bytes \o ConcatBytes(parts, k + 1)

\* keccak(typeHash || encodeData) of the encoded members
HashMembers(type_string, parts) ==
    IF FirstErr(parts) # "none" THEN [err |-> FirstErr(parts), h |-> keccak(<< >>)]
    ELSE [err |-> "none", h |-> keccak(<<keccakText(type_string)>> \o ConcatBytes(parts, 1))]

\* EIP-712 hashStruct
hash_struct(primary, fields, msg) ==
    HashMembers(encode_type(primary, fields), EncodeMembers(fields, msg, 1))

\* the domain of line 85
DomainData ==
    [name |-> "Polymarket CTF Exchange", version |-> "1", chainId |-> PyInt(CHAIN_ID),
     verifyingContract |-> EXCHANGE_CONTRACT]

\* keccak(0x19 || 0x01 || header || body)
SignableHash(header, body) ==
    IF FirstErr(<<header, body>>) # "none"
    THEN [err |-> FirstErr(<<header, body>>), hash |-> keccak(<< >>)]
    ELSE [err |-> "none",
          hash |-> keccak(<<[b |-> 25], [b |-> 1]>> \o <<header.h>> \o <<body.h>>)]

\* encode_typed_data(full_message) and the hash recover_message recovers from:
\* keccak(0x19 || 0x01 || hashStruct(domain) || hashStruct(message))
encode_typed_data(structured_data) ==
    SignableHash(hash_struct("EIP712Domain", structured_data.types.EIP712Domain,
                             structured_data.domain),
                 hash_struct(structured_data.primaryType, structured_data.types.Order,
                             structured_data.message))

\* the message of lines 87-94 for the given values; fee names its fee member
OrderMessage(fee, salt, maker, signer, tokenId, maker_amt, taker_amt, side, signatureType) ==
    [n \in {"salt", "maker", "signer", "taker", "tokenId", "makerAmount", "takerAmount",
            "expiration", "nonce", fee, "side", "signatureType"} |->
       CASE n = "salt" -> salt
         [] n = "maker" -> maker
         [] n = "signer" -> signer
         [] n = "taker" -> ZeroAddress
         [] n = "tokenId" -> tokenId
         [] n = "makerAmount" -> maker_amt
         [] n = "takerAmount" -> taker_amt
         [] n = "side" -> side
         [] n = "signatureType" -> signatureType
         [] OTHER -> PyInt(0)]

\* the structured_data of lines 79-95
StructuredData(fee, message) ==
    [types |-> [EIP712Domain |-> DomainSchema, Order |-> OrderSchema(fee)],
     domain |-> DomainData, primaryType |-> "Order", message |-> message]

\* the floats 0.5 and 1.0 of the synthetic order
Float_0_5 == [cls |-> "fin", sign |-> 0, m |-> <<0, 0, 0, 1024>>, e |-> -53]
Float_1_0 == [cls |-> "fin", sign |-> 0, m |-> <<0, 0, 0, 1024>>, e |-> -52]
Token123456789 == <<"1", "2", "3", "4", "5", "6", "7", "8", "9">>

dummy_args == [price |-> Float_0_5, size |-> Float_1_0, side |-> [str |-> "BUY"],
               token_id |-> Token123456789]

\* VerifyRecovered without the raise of line 104
VerifyRecovered_NoRaise(self, fast, signable, recover) ==
    [err |-> "none", fast |-> fast, ref_hash |-> <<signable.hash>>,
     recover_addr |-> IF recover.err # "none" THEN << >> ELSE <<recover.v>>]

\* lines 102-105: the comparison of the recovered address
VerifyRecovered(self, fast, signable, recover) ==
    IF recover.err # "none"
    THEN [err |-> recover.err, fast |-> fast, ref_hash |-> <<signable.hash>>,
          recover_addr |-> << >>]
    ELSE [err |-> IF recover.v # self.signer_address THEN "RuntimeError" ELSE "none",
          fast |-> fast, ref_hash |-> <<signable.hash>>,
          recover_addr |-> <<recover.v>>]

\* lines 97-100: recover the address from the fast signature and the reference hash
VerifySignable(self, fast, signable) ==
    IF signable.err # "none"
    THEN [err |-> signable.err, fast |-> fast, ref_hash |-> << >>,
          recover_addr |-> << >>]
    ELSE VerifyRecovered(self, fast, signable,
                         RecoverAddress(signable.hash, fast.order[1].signature.hex))

\* lines 76-97: the reference message for the fast payload
VerifyFast(self, fee, fast) ==
    IF fast.err # "none"
    THEN [err |-> fast.err, fast |-> fast, ref_hash |-> << >>, recover_addr |-> << >>]
    ELSE VerifySignable(self, fast,
           encode_typed_data(StructuredData(fee,
             OrderMessage(fee, PyInt(fast.order[1].salt), self.maker_address,
                          self.signer_address, PyInt(123456789),
                          PyInt(ScaledNotional(dummy_args).v),
                          PyInt(ScaledSize(dummy_args).v), PyInt(0),
                          PyInt(self.signature_type)))))

\* _verify_compatibility (lines 67-105): the outcome of the check and what it
\* compared.  fee is the fee member's name in the reference schema and message.
verify_compatibility(self, t, recid, fee) ==
    VerifyFast(self, fee, sign_order(self, dummy_args, t, recid))

(***************************************************************************)
(* FastPolymarketSigner.__init__ (code lines 29-65).                       *)
(***************************************************************************)
\* lines 30-31
strip_0x(hex) ==
    IF Len(hex) >= 2 /\ hex[1] = "0" /\ hex[2] = "x" THEN SubSeq(hex, 3, Len(hex)) ELSE hex

\* line 39: a funder that is None or empty is falsy
Truthy(funder) == funder.style \notin {"none", "empty"}

\* lines 43-53
domain_separator ==
    keccak(<<keccakText(DomainTypeString), keccakText("Polymarket CTF Exchange"),
             keccakText("1")>>
           \o ToBytes32(PyInt(CHAIN_ID)).bytes
           \o RJust32(to_canonical_address(EXCHANGE_CONTRACT)))

\* the fields set by lines 34-62
SelfFields(key, signer_address, maker_address, signature_type) ==
    [private_key |-> key,
     signer_address |-> signer_address,
     maker_address |-> maker_address,
     signature_type |-> signature_type,
     domain_separator |-> domain_separator,
     order_type_hash |-> keccakText(OrderTypeString),
     maker_word |-> RJust32(to_canonical_address(maker_address)),
     signer_word |-> RJust32(to_canonical_address(signer_address)),
     zero_word |-> Rep([b |-> 0], 32)]

\* line 65: the constructor raises what the check raises
InitChecked(self, check) ==
    IF check.err # "none" THEN [err |-> check.err, self |-> << >>, check |-> <<check>>]
    ELSE [err |-> "none", self |-> <<self>>, check |-> <<check>>]

\* lines 42-65
InitSelf(self, t, recid, fee) == InitChecked(self, verify_compatibility(self, t, recid, fee))

\* lines 36-40
InitKey(pk, funder, signature_type, t, recid, fee) ==
    IF pk.err # "none" THEN [err |-> pk.err, self |-> << >>, check |-> << >>]
    ELSE IF Truthy(funder) /\ to_checksum_address(funder).err # "none"
    THEN [err |-> to_checksum_address(funder).err, self |-> << >>, check |-> << >>]
    ELSE InitSelf(SelfFields(pk.key, AddressOfKey(pk.key),
                             IF Truthy(funder) THEN to_checksum_address(funder).v
                             ELSE AddressOfKey(pk.key),
                             signature_type),
                  t, recid, fee)

\* the constructor: the exception it raises ("none": it returns), the instance
\* the caller receives and the check it ran
init(private_key_hex, funder, signature_type, t, recid, fee) ==
    InitKey(from_hex(strip_0x(private_key_hex)), funder, signature_type, t, recid, fee)

(***************************************************************************)
(* The inputs of the model.                                                *)
(***************************************************************************)
\* the last clock reading, in milliseconds
MaxClock == 1

\* private_key_hex arguments: a well-formed key, a key of 62 hex characters
\* with the 0x prefix, one of odd length, one that is not hexadecimal
PrivateKeys ==
    {Rep("a", 64), <<"0", "x">> \o Rep("1", 62), Rep("a", 63), Rep("g", 64)}

\* funder arguments: None, an address in lower case, a malformed string
NoFunder == [addr |-> [named |-> "None"], style |-> "none"]
Funders ==
    {NoFunder,
     [addr |-> [named |-> "0x1111111111111111111111111111111111111111"], style |-> "lower"],
     [addr |-> [named |-> "0x123"], style |-> "malformed"]}

SignatureTypes == {0, 1, 2}

\* the fee member's name in the reference schema: the code's, and the one of
\* the mismatch injection
FeeNames == {"feeRateBps", "feeRate"}

\* prices: 0.5, 0.7, 0.57, 0.0, -0.5, NaN
Prices ==
    {Float_0_5,
     [cls |-> "fin", sign |-> 0, m |-> <<9830, 6553, 9830, 1433>>, e |-> -53],
     [cls |-> "fin", sign |-> 0, m |-> <<2621, 3932, 5898, 1167>>, e |-> -53],
     FZero(0),
     [cls |-> "fin", sign |-> 1, m |-> <<0, 0, 0, 1024>>, e |-> -53],
     NaN}

\* sizes: 5.0, 10.0, 1e-7, +inf
Sizes ==
    {[cls |-> "fin", sign |-> 0, m |-> <<0, 0, 0, 1280>>, e |-> -50],
     [cls |-> "fin", sign |-> 0, m |-> <<0, 0, 0, 1280>>, e |-> -49],
     [cls |-> "fin", sign |-> 0, m |-> <<12104, 10994, 16169, 1717>>, e |-> -76],
     Inf(0)}

Sides == {[int |-> 0], [int |-> 1], [str |-> "BUY"], [str |-> "SELL"]}

\* 2^256 - 1 and 2^256 in decimal
TokenMax256 ==
    <<"1", "1", "5", "7", "9", "2", "0", "8", "9", "2", "3", "7", "3", "1", "6", "1", "9", "5", "4", "2", "3", "5", "7", "0", "9", "8", "5", "0", "0", "8", "6", "8", "7", "9", "0", "7", "8", "5", "3", "2", "6", "9", "9", "8", "4", "6", "6", "5", "6", "4", "0", "5", "6", "4", "0", "3", "9", "4", "5", "7", "5", "8", "4", "0", "0", "7", "9", "1", "3", "1", "2", "9", "6", "3", "9", "9", "3", "5">>
TokenPow256 ==
    <<"1", "1", "5", "7", "9", "2", "0", "8", "9", "2", "3", "7", "3", "1", "6", "1", "9", "5", "4", "2", "3", "5", "7", "0", "9", "8", "5", "0", "0", "8", "6", "8", "7", "9", "0", "7", "8", "5", "3", "2", "6", "9", "9", "8", "4", "6", "6", "5", "6", "4", "0", "5", "6", "4", "0", "3", "9", "4", "5", "7", "5", "8", "4", "0", "0", "7", "9", "1", "3", "1", "2", "9", "6", "3", "9", "9", "3", "6">>

\* token_id arguments: "123456789", "0", 2^256 - 1, 2^256, "abc", "-5"
TokenIds ==
    {Token123456789, <<"0">>, TokenMax256, TokenPow256, <<"a", "b", "c">>, <<"-", "5">>}

\* the order intents, each in the four spellings of the side: every price at
\* the sizes 5.0 and 10.0 and every size at the price 0.5 for the token id
\* "123456789", and every token id at the price 0.5 and the size 10.0
OrderArgs ==
    {a \in [price : Prices, size : Sizes, side : Sides, token_id : TokenIds] :
       \/ a.token_id = Token123456789 /\ (a.price = Float_0_5 \/ a.size.e \in {-50, -49})
       \/ a.price = Float_0_5 /\ a.size.e = -49}

(***************************************************************************)
(* examples/verify_hash.py: the script packs the digest by hand from the   *)
(* signer's attributes and compares it with what encode_typed_data gives   *)
(* for the schema and the message the script declares.                     *)
(***************************************************************************)
\* line 25
dummy_token ==
    <<"5", "8", "0", "8", "9", "2", "6", "5", "2", "6", "6", "8", "5", "8",
      "6", "9", "4", "0", "3", "8", "1", "6", "1", "7", "2", "6", "5", "8",
      "8", "2", "8", "3", "6", "6", "9", "6", "4", "9", "6", "6", "7", "7",
      "9", "3", "4", "4", "4", "6", "5", "4", "2", "0", "3", "6", "4", "2",
      "3", "4", "0", "2", "6", "6", "0", "1", "4", "3", "8", "9", "0", "3",
      "3", "3", "2", "8", "3", "2">>

\* line 26
script_args ==
    [price |-> Float_0_5, size |-> FloatOfInt(10), side |-> [str |-> "BUY"],
     token_id |-> dummy_token]

\* lines 38-52: the buffer packed from the signer's attributes
script_encoded_data(signer, salt) ==
    PackWords(signer.order_type_hash,
              <<ToBytes32(PyInt(salt)),
                [err |-> "none", bytes |-> signer.maker_word],
                [err |-> "none", bytes |-> signer.signer_word],
                [err |-> "none", bytes |-> signer.zero_word],
                ToBytes32(ParseInt(script_args.token_id).v),
                ToBytes32(PyInt(ScaledNotional(script_args).v)),
                ToBytes32(PyInt(ScaledSize(script_args).v)),
                ToBytes32(PyInt(0)),
                ToBytes32(PyInt(0)),
                ToBytes32(PyInt(0)),
                ToBytes32(PyInt(0)),
                ToBytes32(PyInt(signer.signature_type))>>)

\* line 55: the 32 bytes of the digest
fast_digest(signer, salt) ==
    <<keccak(<<[b |-> 25], [b |-> 1]>> \o <<signer.domain_separator>>
               \o <<keccak(script_encoded_data(signer, salt).bytes)>>)>>

\* lines 59-103: the schema names the fee member feeRate
script_data(signer, salt) ==
    StructuredData("feeRate",
                   OrderMessage("feeRate", PyInt(salt), signer.maker_address,
                                signer.signer_address, ParseInt(dummy_token).v,
                                PyInt(ScaledNotional(script_args).v),
                                PyInt(ScaledSize(script_args).v), PyInt(0),
                                PyInt(signer.signature_type)))

\* line 105: the SignableMessage of encode_typed_data: the version byte, the
\* domain's struct hash as header and the message's struct hash as body
SignableMessage(structured_data) ==
    [version |-> <<[b |-> 1]>>,
     header |-> hash_struct("EIP712Domain", structured_data.types.EIP712Domain,
                            structured_data.domain),
     body |-> hash_struct(structured_data.primaryType, structured_data.types.Order,
                          structured_data.message)]

\* line 106: header + body, 64 bytes
slow_digest(slow_message) == <<slow_message.header.h>> \o <<slow_message.body.h>>

\* lines 113-117: what the script prints
ScriptCompared(signer, fast, slow) ==
    [err |-> "none", signer |-> <<signer>>, fast_digest |-> fast, slow_digest |-> slow,
     report |-> IF fast = slow THEN "HASH VERIFIED" ELSE "MISMATCH"]

\* lines 23-117 once the constructor has returned or raised
ScriptConstructed(r, salt) ==
    IF r.err # "none"
    THEN [err |-> r.err, signer |-> << >>, fast_digest |-> << >>, slow_digest |-> << >>,
          report |-> "none"]
    ELSE ScriptCompared(r.self[1], fast_digest(r.self[1], salt),
                        slow_digest(SignableMessage(script_data(r.self[1], salt))))

\* a run of the script with the environment's PK, FUNDER and SIGNATURE_TYPE
verify_hash(KEY, FUNDER, SIGNATURE_TYPE, t, recid, fee) ==
    ScriptConstructed(init(KEY, FUNDER, SIGNATURE_TYPE, t, recid, fee), t)

(***************************************************************************)
(* examples/transmission.py: ShadowStrategy.  Times are whole seconds of   *)
(* time.time(); prices, the gear ratio and the predicted jump are floats.  *)
(***************************************************************************)
VELOCITY_WINDOW == 1
MAX_SENSITIVITY_CAP == FloatOfDecimal(5, 2)
ENTRY_THRESHOLD == FloatOfDecimal(2, 2)
RESET_THRESHOLD == FloatOfDecimal(5, 3)

\* min(a, b) of two finite floats
FMin(a, b) == IF FLt(b, a) THEN b ELSE a

\* calculate_transmission_coefficient: 0.0 less than 2 seconds before the
\* expiry or for a standard move below 1e-6, else the density over the
\* standard move, capped.  pdf_over_std is << >> for a standard move below
\* 1e-6, else <<pdf_height / std_dev_move>>
calculate_transmission_coefficient(time_to_expiry_sec, pdf_over_std) ==
    IF time_to_expiry_sec < 2 THEN FZero(0)
    ELSE IF pdf_over_std = << >> THEN FZero(0)
    ELSE FMin(pdf_over_std[1], MAX_SENSITIVITY_CAP)

\* ShadowStrategy(strike_price, expiry_timestamp, volatility, velocity_window):
\* the attributes, with what the instance has printed (out), the jump of its
\* last tick, the number of ticks and the time of the last one
ShadowStrategy(expiry_timestamp, velocity_window, t) ==
    [expiry_timestamp |-> expiry_timestamp, velocity_window |-> velocity_window,
     history |-> << >>, last_heartbeat |-> 0, is_in_swing |-> FALSE,
     predicted_jump |-> << >>, out |-> << >>, ticks |-> 0, clock |-> t]

RECURSIVE Pruned(_, _, _)
\* lines 63-64: popleft while the oldest entry is older than the window
Pruned(history, t, window) ==
    IF history # << >> /\ t - history[1].t > window THEN Pruned(Tail(history), t, window)
    ELSE history

\* the trigger with the state flipped on every tick beyond either threshold
Triggered_NoHysteresis(self, predicted_jump) ==
    IF FGt(FAbs(predicted_jump), ENTRY_THRESHOLD)
    THEN [self EXCEPT !.is_in_swing = TRUE, !.out = Append(@, "EXECUTE")]
    ELSE IF FLt(FAbs(predicted_jump), RESET_THRESHOLD)
         THEN [self EXCEPT !.is_in_swing = FALSE, !.out = Append(@, "RELOAD")]
    ELSE self

\* lines 89-108: the trigger
Triggered(self, predicted_jump) ==
    IF ~self.is_in_swing
    THEN (IF FGt(FAbs(predicted_jump), ENTRY_THRESHOLD)
          THEN [self EXCEPT !.is_in_swing = TRUE, !.out = Append(@, "EXECUTE")]
          ELSE self)
    ELSE IF FLt(FAbs(predicted_jump), RESET_THRESHOLD)
         THEN [self EXCEPT !.is_in_swing = FALSE, !.out = Append(@, "RELOAD")]
    ELSE self

\* lines 111-113: the heartbeat
Heartbeat(self, t) ==
    IF t - self.last_heartbeat > 5
    THEN [self EXCEPT !.last_heartbeat = t, !.out = Append(@, "Alive")]
    ELSE self

\* lines 66-108 on the pruned history
OnPruned(self, mid_price, t, gear_ratio) ==
    IF self.history = << >> THEN self
    ELSE Heartbeat(
           Triggered([self EXCEPT !.predicted_jump =
                         <<FMul(FSub(mid_price, self.history[1].price), gear_ratio)>>],
                     FMul(FSub(mid_price, self.history[1].price), gear_ratio)), t)

\* on_market_data(mid_price) at the time t
on_market_data(self, mid_price, t, pdf_over_std) ==
    OnPruned([self EXCEPT !.history = Pruned(Append(@, [t |-> t, price |-> mid_price]), t,
                                             self.velocity_window),
                          !.predicted_jump = << >>,
                          !.ticks = @ + 1, !.clock = t],
             mid_price, t,
             calculate_transmission_coefficient(self.expiry_timestamp - t, pdf_over_std))


\* the last tick of a run
MaxTicks == 4

\* the mid prices of the stream, the seconds between two ticks, and
\* pdf_height / std_dev_move: 0.0025, 0.01, 0.08 (capped), or a standard move
\* below 1e-6
MidPrices == {FloatOfInt(50000), FloatOfInt(50002), FloatOfInt(50003)}
TickGaps == {0, 2}
Sensitivities ==
    {<<FloatOfDecimal(25, 4)>>, <<FloatOfDecimal(1, 2)>>, <<FloatOfDecimal(8, 2)>>, << >>}


(***************************************************************************)
(* examples/manager.py: main.  The clock t counts the seconds past the     *)
(* quarter hour; a call that blocks (stop_trader, the fetcher, the         *)
(* last-trades helper, a sleep) takes a whole number of seconds drawn from *)
(* a set.  trader_process is "None" or what poll() tells of the handle     *)
(* ("running", "exited"); running counts the trader processes the manager  *)
(* started that are alive.                                                 *)
(***************************************************************************)
QuarterSeconds == 900
FetchSeconds == 5
PollSeconds == 60

\* line 325: seconds_past_quarter at the time t
seconds_past_quarter(t) == t % QuarterSeconds

\* the manager d seconds later: a quarter hour that begins has had no fetch
\* (fetches) and is due one (due)
Later(m, d) ==
    [m EXCEPT !.t = (m.t + d) % QuarterSeconds,
              !.poll_age = IF @ + d > PollSeconds THEN PollSeconds ELSE @ + d,
              !.fetches = IF m.t + d >= QuarterSeconds THEN 0 ELSE @,
              !.due = IF m.t + d >= QuarterSeconds THEN TRUE ELSE @,
              !.missed = @ \/ (m.t + d >= QuarterSeconds /\ m.due)]

\* main at line 313, entered at the time t; poll_age is the time since
\* last_trades_poll_ts, counted up to PollSeconds; missed tells that a
\* quarter hour has ended without the fetch it was due, stopped that the
\* manager has stopped the trader it started last
ManagerAt(t) ==
    [pc |-> "startup", t |-> t, trader_process |-> "None", running |-> 0,
     current_window_updated |-> FALSE, poll_age |-> PollSeconds,
     fetches |-> 0, due |-> FALSE, missed |-> FALSE, stopped |-> FALSE,
     last_fetch |-> << >>]

\* run_id_fetcher (lines 70-80), taking d seconds; where is "startup"
\* (line 313) or "loop" (line 332), observed the seconds_past_quarter read
run_id_fetcher(m, where, observed, d) ==
    Later([m EXCEPT !.fetches = IF where = "loop" THEN @ + 1 ELSE @,
                    !.due = IF where = "loop" THEN FALSE ELSE @,
                    !.last_fetch = <<[where |-> where, observed |-> observed,
                                      running |-> m.running,
                                      trader_process |-> m.trader_process,
                                      stopped |-> m.stopped]>>], d)

\* run_last_trades (lines 86-102) when there are order ids, taking d seconds
run_last_trades(m, has_ids, d) == IF has_ids THEN Later(m, d) ELSE m

\* lines 313-320
Startup(m, fetch_d, has_ids, helper_d) ==
    [run_last_trades(run_id_fetcher(m, "startup", seconds_past_quarter(m.t), fetch_d),
                     has_ids, helper_d)
       EXCEPT !.pc = "loop"]

\* stop_trader that forgets the handle and leaves the process running
stop_trader_Detach(m, d) ==
    Later([m EXCEPT !.trader_process = "None", !.stopped = TRUE], d)

\* lines 328-330 with stop_trader (lines 292-301): terminate, wait up to 5
\* seconds, kill; d seconds in all
stop_trader(m, d) ==
    Later([m EXCEPT !.trader_process = "None", !.stopped = TRUE,
                    !.running = IF m.trader_process = "running" THEN @ - 1 ELSE @], d)

\* start_trader (lines 82-84)
start_trader(m) ==
    [m EXCEPT !.trader_process = "running", !.running = @ + 1, !.stopped = FALSE]

\* lines 331-334: the fetch, once, and the sleep of half a second
FetchIfDue(m, observed, fetch_d, sleep_d) ==
    Later(IF ~m.current_window_updated
          THEN [run_id_fetcher(m, "loop", observed, fetch_d)
                  EXCEPT !.current_window_updated = TRUE]
          ELSE m, sleep_d)

\* lines 327-334: the first five seconds of a quarter hour
FetchBranch(m, observed, stop_d, fetch_d, sleep_d) ==
    FetchIfDue(IF m.trader_process # "None" THEN stop_trader(m, stop_d) ELSE m,
               observed, fetch_d, sleep_d)

\* lines 344-358: the poll of the last trades, once a minute, and the sleep
\* of a second
PollIfDue(m, has_ids, helper_d) ==
    Later(IF m.poll_age >= PollSeconds
          THEN [run_last_trades(m, has_ids, helper_d)
                  EXCEPT !.poll_age = IF has_ids THEN helper_d ELSE 0]
          ELSE m, 1)

\* lines 340-342: a trader that exited is started again
Restarted(m) == IF m.trader_process = "exited" THEN start_trader(m) ELSE m

\* lines 336-358: the rest of the quarter hour
TradeBranch(m, has_ids, helper_d) ==
    PollIfDue(Restarted(IF m.trader_process = "None"
                        THEN start_trader([m EXCEPT !.current_window_updated = FALSE])
                        ELSE [m EXCEPT !.current_window_updated = FALSE]),
              has_ids, helper_d)

\* one iteration of the loop of lines 323-358
LoopIteration(m, stop_d, fetch_d, sleep_d, has_ids, helper_d) ==
    IF seconds_past_quarter(m.t) < FetchSeconds
    THEN FetchBranch(m, seconds_past_quarter(m.t), stop_d, fetch_d, sleep_d)
    ELSE TradeBranch(m, has_ids, helper_d)

\* the durations, in seconds: stop_trader returns at once or after the
\* timeout of 5 seconds and the kill; the fetcher takes a second; the sleep
\* of half a second ends within the same second or in the next; the
\* last-trades helper answers at once or after 6 seconds
StopDurations == {0, 6}
FetchDurations == {1}
HalfSleeps == {0, 1}
HelperDurations == {0, 6}

\* the times main is entered at: second 1 and second 897 of a quarter hour
StartTimes == {1, 897}

(***************************************************************************)
(* examples/store_price.py and examples/poly_cache.py: the shared price    *)
(* store and the websocket listener.  A raw price of a message is None,    *)
(* "N/A" or a decimal string digits / 10^scale.  A token id is a string,   *)
(* << >> when it is None or empty.                                         *)
(***************************************************************************)
\* store_price.py lines 5-12
StoreAtImport ==
    [UP_askprice |-> FZero(0), UP_bidprice |-> FZero(0), spread_up |-> FZero(0),
     DOWN_askprice |-> FZero(0), DOWN_bidprice |-> FZero(0), spread_down |-> FZero(0)]

\* store_price.py lines 20-24 and 27-31: the spread of one side
Spread(ask, bid) ==
    IF FGt(ask, FZero(0)) /\ FGt(bid, FZero(0)) THEN Format3(FAbs(FSub(ask, bid)))
    ELSE FZero(0)

\* store_price.update_spreads
update_spreads(store) ==
    [store EXCEPT !.spread_up = Spread(store.UP_askprice, store.UP_bidprice),
                  !.spread_down = Spread(store.DOWN_askprice, store.DOWN_bidprice)]

\* the raw prices: None, "N/A", and a decimal string with the double that
\* float() gives for it
NoPrice == [kind |-> "None"]
NotAvailable == [kind |-> "N/A"]
Decimal(digits, scale) ==
    [kind |-> "decimal", digits |-> digits, scale |-> scale,
     float |-> FloatOfDecimal(digits, scale)]

\* poly_cache.py lines 138-139: float(raw) unless raw is falsy or "N/A"
current_price(raw) == IF raw.kind = "decimal" THEN <<raw.float>> ELSE << >>

\* poly_cache.py lines 31-35
resolve_side_for_token(cache, token_id) ==
    IF cache.UP = token_id THEN "UP" ELSE IF cache.DOWN = token_id THEN "DOWN" ELSE "None"

\* poly_cache.py lines 143-152: the writes of one side and the spreads
StoreWritten(store, side, current_ask, current_bid) ==
    update_spreads(
      [store EXCEPT
         !.UP_askprice = IF side = "UP" /\ current_ask # << >> THEN current_ask[1] ELSE @,
         !.DOWN_askprice = IF side = "DOWN" /\ current_ask # << >> THEN current_ask[1] ELSE @,
         !.UP_bidprice = IF side = "UP" /\ current_bid # << >> THEN current_bid[1] ELSE @,
         !.DOWN_bidprice = IF side = "DOWN" /\ current_bid # << >> THEN current_bid[1] ELSE @])

\* the listener writing the store on every event that names a cached token
OnMessage_AnyEvent(cache, store, message) ==
    IF message.price_changes = << >> THEN store
    ELSE IF resolve_side_for_token(cache, message.price_changes[1].asset_id) = "None"
         THEN store
    ELSE StoreWritten(store,
                      resolve_side_for_token(cache, message.price_changes[1].asset_id),
                      current_price(message.price_changes[1].best_ask),
                      current_price(message.price_changes[1].best_bid))

\* poly_cache.py lines 120-192: the store after one message of the socket
OnMessage(cache, store, message) ==
    IF message.event_type # "price_change" THEN store
    ELSE IF message.price_changes = << >> THEN store
    ELSE IF resolve_side_for_token(cache, message.price_changes[1].asset_id) = "None"
         THEN store
    ELSE StoreWritten(store,
                      resolve_side_for_token(cache, message.price_changes[1].asset_id),
                      current_price(message.price_changes[1].best_ask),
                      current_price(message.price_changes[1].best_bid))

(***************************************************************************)
(* refresh_market_ids of examples/engine_improved.py (lines 123-147) and   *)
(* of examples/poly_cache.py (lines 40-64): the same code on the module's  *)
(* own POLY_MARKET_CACHE.  active_ids.json is missing, not JSON, or holds  *)
(* the ids UP and DOWN.                                                    *)
(***************************************************************************)
CacheAtImport == [UP |-> << >>, DOWN |-> << >>]
NoFile == [exists |-> FALSE, json |-> FALSE, UP |-> << >>, DOWN |-> << >>]
NotJson == [exists |-> TRUE, json |-> FALSE, UP |-> << >>, DOWN |-> << >>]
IdsFile(up_id, down_id) == [exists |-> TRUE, json |-> TRUE, UP |-> up_id, DOWN |-> down_id]

\* the cache with the UP id alone replaced
Reloaded_UpOnly(cache, file) ==
    IF cache.UP # file.UP THEN [UP |-> file.UP, DOWN |-> cache.DOWN] ELSE cache

\* the ids cached when the UP id of the file differs
Reloaded(cache, file) ==
    IF cache.UP # file.UP THEN [UP |-> file.UP, DOWN |-> file.DOWN] ELSE cache

\* refresh_market_ids: what it returns, the cache and NEEDS_NEW_IDS after it
refresh_market_ids(cache, needs_new_ids, file) ==
    IF ~file.exists \/ ~file.json \/ file.UP = << >> \/ file.DOWN = << >>
    THEN [ok |-> FALSE, cache |-> cache, NEEDS_NEW_IDS |-> needs_new_ids]
    ELSE [ok |-> TRUE, cache |-> Reloaded(cache, file), NEEDS_NEW_IDS |-> FALSE]

\* poly_cache.py lines 37-38
cache_has_ids(cache) == cache.UP # << >> /\ cache.DOWN # << >>

\* the module state of poly_cache at import (lines 17-21)
PolyCacheAtImport == [POLY_MARKET_CACHE |-> CacheAtImport, NEEDS_NEW_IDS |-> FALSE]

(***************************************************************************)
(* examples/engine_improved.py: execute_trade.                             *)
(***************************************************************************)
SPREAD_THRESHOLD == FloatOfDecimal(2, 2)
PriceFloor == FloatOfDecimal(15, 2)
PriceCeiling == FloatOfDecimal(85, 2)
PriceMargin == FloatOfDecimal(2, 2)
min_notional == FloatOfInt(1)

RECURSIVE gcd(_, _)
\* math.gcd
gcd(a, b) == IF b = 0 THEN a ELSE gcd(b, a % b)

\* lines 266-267 and 276
SizeChosen(execution_price, price_cents, step_cents, raw_size_cents, valid_size_cents) ==
    [execution_price |-> execution_price, price_cents |-> price_cents,
     step_cents |-> step_cents, raw_size_cents |-> raw_size_cents,
     valid_size_cents |-> valid_size_cents,
     valid_size |-> FDiv(FloatOfInt(valid_size_cents), FloatOfInt(100)),
     total_cost |-> FMul(FDiv(FloatOfInt(valid_size_cents), FloatOfInt(100)),
                         execution_price)]

\* lines 264-266
SizeCeiled(execution_price, price_cents, step_cents, raw_size_cents) ==
    SizeChosen(execution_price, price_cents, step_cents, raw_size_cents,
             PyCeil(FDiv(raw_size_cents, FloatOfInt(step_cents))).v * step_cents)

\* lines 260-265
SizeStepped(execution_price, price_cents) ==
    SizeCeiled(execution_price, price_cents, 100 \div gcd(price_cents, 100),
             FMul(FDiv(min_notional, execution_price), FloatOfInt(100)))

\* lines 255-267: the size alignment for the stored ask price
SizeAlignment(market_price) ==
    SizeStepped(FAdd(market_price, PriceMargin),
             PyRound(FMul(FAdd(market_price, PriceMargin), FloatOfInt(100))).v)

\* the module state of engine_improved at import (lines 54-63), DRY_RUN_MODE as
\* configured; main is the position of main, awaiting the call of
\* execute_trade that awaits post_order, call the outcome of the last call
EngineAtImport(dry_run) ==
    [main |-> "import", POLY_MARKET_CACHE |-> CacheAtImport, NEEDS_NEW_IDS |-> FALSE,
     client |-> "None", DRY_RUN_MODE |-> dry_run, TRACKED_TRADES |-> << >>,
     awaiting |-> << >>, call |-> << >>]

\* execute_trade returning without posting: at a return statement, or from
\* the handler of the exception caught
Rejected(e, direction, outcome) ==
    [e EXCEPT !.call = <<[direction |-> direction, outcome |-> outcome]>>]

\* line 289: the order is handed to client.post_order and the call awaits
Posting(e, direction, market_price, spread, signed) ==
    [e EXCEPT !.call = <<[direction |-> direction, outcome |-> "posting"]>>,
              !.awaiting = <<[side |-> direction, entry |-> market_price,
                              spread |-> spread, order |-> signed.order[1]]>>]

\* lines 283-289 and 314-315: the signed payload or the exception caught
Signed(e, direction, market_price, spread, signed) ==
    IF signed.err # "none" THEN Rejected(e, direction, signed.err)
    ELSE Posting(e, direction, market_price, spread, signed)

\* lines 269-283
Sized(e, signer, direction, market_price, spread, token_id, size, t, recid) ==
    IF e.DRY_RUN_MODE THEN Rejected(e, direction, "dry run")
    ELSE Signed(e, direction, market_price, spread,
                sign_order(signer[1],
                           [price |-> size.execution_price, size |-> size.valid_size,
                            side |-> [str |-> "BUY"], token_id |-> token_id],
                           t, recid))

\* lines 235-267: the checks of the store data
Checked(e, signer, direction, market_price, spread, token_id, t, recid) ==
    IF FLe(market_price, FZero(0)) THEN Rejected(e, direction, "no price")
    ELSE IF FGe(spread, SPREAD_THRESHOLD) THEN Rejected(e, direction, "spread too high")
    ELSE IF FLt(market_price, PriceFloor) THEN Rejected(e, direction, "too low")
    ELSE IF FGt(market_price, PriceCeiling) THEN Rejected(e, direction, "too expensive")
    ELSE Sized(e, signer, direction, market_price, spread, token_id,
               SizeAlignment(market_price), t, recid)

\* lines 230-232: one refresh when the id is missing
Refreshed(e, signer, direction, market_price, spread, r, t, recid) ==
    IF r.cache[direction] = << >>
    THEN Rejected([e EXCEPT !.POLY_MARKET_CACHE = r.cache, !.NEEDS_NEW_IDS = r.NEEDS_NEW_IDS],
                  direction, "no token id")
    ELSE Checked([e EXCEPT !.POLY_MARKET_CACHE = r.cache, !.NEEDS_NEW_IDS = r.NEEDS_NEW_IDS],
                 signer, direction, market_price, spread, r.cache[direction], t, recid)

\* lines 206-232 for the values read from the store and the cache
Read(e, signer, file, direction, market_price, spread, token_id, t, recid) ==
    IF signer = << >> THEN Rejected(e, direction, "no signer")
    ELSE IF e.client = "None" THEN Rejected(e, direction, "no client")
    ELSE IF token_id = << >>
         THEN Refreshed(e, signer, direction, market_price, spread,
                        refresh_market_ids(e.POLY_MARKET_CACHE, e.NEEDS_NEW_IDS, file), t, recid)
    ELSE Checked(e, signer, direction, market_price, spread, token_id, t, recid)

\* execute_trade(direction, ...) up to the await of line 289: side_label is
\* "UP" for the direction "UP" and "DOWN" for any other
execute_trade(e, store, signer, file, direction, t, recid) ==
    IF direction = "UP"
    THEN Read(e, signer, file, "UP", store.UP_askprice, store.spread_up,
              e.POLY_MARKET_CACHE.UP, t, recid)
    ELSE Read(e, signer, file, "DOWN", store.DOWN_askprice, store.spread_down,
              e.POLY_MARKET_CACHE.DOWN, t, recid)

\* the trade appended although post_order raised
post_returned_AppendAlways(e, outcome) ==
    [e EXCEPT !.awaiting = << >>,
              !.call[1].outcome = outcome,
              !.TRACKED_TRADES = Append(@, [side |-> e.awaiting[1].side,
                                             entry |-> e.awaiting[1].entry,
                                             spread |-> e.awaiting[1].spread,
                                             order_id |-> outcome])]

\* lines 289-315: post_order returned the order id, or raised
post_returned(e, outcome) ==
    [e EXCEPT !.awaiting = << >>,
              !.call[1].outcome = outcome,
              !.TRACKED_TRADES = IF outcome = "orderID"
                                 THEN Append(@, [side |-> e.awaiting[1].side,
                                                 entry |-> e.awaiting[1].entry,
                                                 spread |-> e.awaiting[1].spread,
                                                 order_id |-> outcome])
                                 ELSE @]

\* the last trade execute_trade may begin: the length TRACKED_TRADES grows to
MaxTrades == 1

\* the token ids of a market, the DOWN one no number; the ids of another
\* market; and the contents of active_ids.json: missing, not JSON, a market,
\* the same UP id with another DOWN id, another market, and data that lacks
\* the DOWN id or the UP id
UpId == Token123456789
DownId == <<"x", "7">>
OtherId == <<"9", "9">>
IdFiles ==
    {NoFile, NotJson, IdsFile(UpId, DownId), IdsFile(UpId, OtherId),
     IdsFile(<<"8">>, OtherId),
     IdsFile(<<"8">>, << >>), IdsFile(<< >>, DownId)}

\* the file the id fetcher writes for the market the engine trades
MarketFiles == {IdsFile(UpId, DownId)}

\* a price_change message with one change
PriceChange(asset_id, best_bid, best_ask) ==
    [event_type |-> "price_change", asset_id |-> asset_id,
     price_changes |-> <<[asset_id |-> asset_id, best_bid |-> best_bid,
                          best_ask |-> best_ask]>>]

\* a message of another event type that carries the same fields
OtherEvent(event_type, message) == [message EXCEPT !.event_type = event_type]

\* the raw prices of the listener's messages
RawBids == {NoPrice, NotAvailable, Decimal(0, 0), Decimal(5, 1), Decimal(5195, 4)}
RawAsks == {NoPrice, Decimal(5206, 4), Decimal(52, 2), Decimal(51, 2)}

\* the messages of the socket: price changes of the cached tokens and of
\* another, a price change without changes, and trades and book snapshots
\* that carry prices
StoreMessages ==
    {PriceChange(a, b, k) : a \in {UpId, DownId}, b \in RawBids, k \in RawAsks}
      \cup {PriceChange(OtherId, Decimal(5, 1), Decimal(52, 2)),
            [event_type |-> "price_change", asset_id |-> UpId, price_changes |-> << >>]}
      \cup {OtherEvent(t, PriceChange(UpId, Decimal(5, 1), Decimal(52, 2))) :
              t \in {"last_trade_price", "book", "Unknown"}}

\* the quotes the engine trades on: bid and ask in cents
Quote(asset_id, bid_cents, ask_cents) ==
    PriceChange(asset_id, Decimal(bid_cents, 2), Decimal(ask_cents, 2))
EngineMessages ==
    {Quote(UpId, 17, 18), Quote(UpId, 40, 50), Quote(UpId, 9, 10), Quote(UpId, 89, 90),
     Quote(DownId, 49, 50)}

\* the whole-cent ask prices execute_trade sizes an order for
AskCents == 15..85

(***************************************************************************)
(* The state machine: one process constructs the engine and then calls     *)
(* sign_order; the caller takes each result before the next call.          *)
(***************************************************************************)
VARIABLES
    phase,      \* "start", "ready" (the constructor returned), "failed" (it raised)
    instance,   \* <<self>> once the constructor has returned, << >> otherwise
    ctor,       \* << >>, or the constructor call: its arguments and outcome
    refFee,     \* the fee member's name in the reference schema
    now,        \* the clock, in milliseconds
    last,       \* << >>, or the sign_order call the caller holds the outcome of
    threads,    \* per thread: the position and the locals of its sign_order call
    script,     \* << >>, or what a run of verify_hash.py computed and reported
    strategy,   \* the ShadowStrategy instance of transmission.py
    manager,    \* the locals of manager.main, its clock and the trader process
    engine,     \* the module globals of engine_improved and its pending call
    store_price, \* the module globals of store_price
    poly_cache, \* the module globals of poly_cache
    active_ids, \* the file active_ids.json
    sizing      \* an ask price in cents and << >> or the size execute_trade aligns for it

\* the state of the programs around the signer
appVars ==
    <<script, strategy, manager, engine, store_price, poly_cache, active_ids, sizing>>

vars == <<phase, instance, ctor, refFee, now, last, threads, appVars>>

\* the threads that call sign_order on the one instance
Threads == {"t1", "t2"}

\* a thread outside sign_order: no local is bound
Idle ==
    [pc |-> "idle", args |-> << >>, token_id_int |-> << >>, maker_amount |-> << >>,
     taker_amount |-> << >>, salt |-> << >>, encoded_data |-> << >>, digest |-> << >>,
     signature_bytes |-> << >>, sig_mutable |-> << >>, signs |-> 0, err |-> "none",
     order |-> << >>]

\* the state after construction: the signer's machine at its start, the
\* strategy created at second 100 for an expiry four seconds later, the
\* manager entering main at one of the times starts, the engine imported with
\* DRY_RUN_MODE one of dry_runs, and an ask price of cents/100
InitAll(fees, starts, dry_runs, cents) ==
    /\ phase = "start"
    /\ instance = << >>
    /\ ctor = << >>
    /\ refFee \in fees
    /\ now = 0
    /\ last = << >>
    /\ threads = [th \in Threads |-> Idle]
    /\ script = << >>
    /\ strategy = ShadowStrategy(104, VELOCITY_WINDOW, 100)
    /\ manager \in {ManagerAt(t) : t \in starts}
    /\ engine \in {EngineAtImport(d) : d \in dry_runs}
    /\ store_price = StoreAtImport
    /\ poly_cache = PolyCacheAtImport
    /\ active_ids = NoFile
    /\ sizing \in {[cents |-> c, size |-> << >>] : c \in cents}

InitWith(fees) == InitAll(fees, {1}, {FALSE}, {18})

Init == InitWith({"feeRateBps"})

\* FastPolymarketSigner(private_key_hex, funder, signature_type), with the
\* arguments and the recovery id of the check's signature drawn from the sets
ConstructWith(keys, funders, types, recids) ==
    /\ phase = "start"
    /\ \E private_key_hex \in keys, funder \in funders,
          signature_type \in types, recid \in recids :
         \E r \in {init(private_key_hex, funder, signature_type, now, recid, refFee)} :
            /\ phase' = IF r.err = "none" THEN "ready" ELSE "failed"
            /\ instance' = r.self
            /\ ctor' = <<[private_key_hex |-> private_key_hex, funder |-> funder,
                          signature_type |-> signature_type, err |-> r.err,
                          check |-> r.check]>>
    /\ UNCHANGED <<appVars, refFee, now, last, threads>>

\* FastPolymarketSigner(private_key_hex, funder, signature_type)
Construct == ConstructWith(PrivateKeys, Funders, SignatureTypes, {0, 1})

\* sign_order with the side of the last order kept on the instance
SelfAfter_KeepsSide(self, order_args) ==
    [self EXCEPT !.signature_type = side_int(order_args.side)]

\* the instance after a call of sign_order: lines 107-169 assign no attribute
\* of self, whether the call returns or raises
SelfAfter(self, order_args) == self

\* signer.sign_order(order_args) by a caller that holds the instance
SignOrder ==
    /\ instance # << >>
    /\ last = << >>
    /\ \E order_args \in OrderArgs, recid \in {0, 1} :
         /\ last' = <<[args |-> order_args, res |-> sign_order(instance[1], order_args, now, recid)]>>
         /\ instance' = <<SelfAfter(instance[1], order_args)>>
    /\ UNCHANGED <<appVars, phase, ctor, refFee, now, threads>>

\* the caller takes the outcome (the order, or the exception)
TakeResult ==
    /\ last # << >>
    /\ last' = << >>
    /\ UNCHANGED <<appVars, phase, instance, ctor, refFee, now, threads>>

\* time passes
Tick ==
    /\ now < MaxClock
    /\ now' = now + 1
    /\ UNCHANGED <<appVars, phase, instance, ctor, refFee, last, threads>>

Next == Construct \/ SignOrder \/ TakeResult \/ Tick

Spec == Init /\ [][Next]_vars

\* the same machine with the reference schema's fee name injected
InitInject == InitWith(FeeNames)
SpecInject == InitInject /\ [][Next]_vars

(***************************************************************************)
(* sign_order statement by statement, for calls of several threads on one  *)
(* instance.  Every name the function binds is a local of the call; self   *)
(* is only read.                                                           *)
(***************************************************************************)
\* the call raises err
StepRaise(loc, err) == [loc EXCEPT !.pc = "raised", !.err = err]

\* lines 109-120: token_id_int and the two amounts
StepParsed(loc, tok, mk, tk) ==
    IF FirstErr(<<tok, mk, tk>>) # "none" THEN StepRaise(loc, FirstErr(<<tok, mk, tk>>))
    ELSE [loc EXCEPT !.pc = "salt", !.token_id_int = <<tok.v>>,
                     !.maker_amount = <<mk.v>>, !.taker_amount = <<tk.v>>]
StepParse(loc) ==
    StepParsed(loc, ParseInt(loc.args[1].token_id), maker_amount(loc.args[1]),
               taker_amount(loc.args[1]))

\* line 122: salt = int(time.time() * 1000), t the clock in milliseconds
StepSalt(loc, t) == [loc EXCEPT !.pc = "pack", !.salt = <<t>>]

\* lines 125-139
StepPacked(loc, enc) ==
    IF enc.err # "none" THEN StepRaise(loc, enc.err)
    ELSE [loc EXCEPT !.pc = "hash", !.encoded_data = enc.bytes]
StepPack(self, loc) ==
    StepPacked(loc, encoded_data(self, loc.salt[1], loc.token_id_int[1], loc.maker_amount[1],
                                 loc.taker_amount[1], side_int(loc.args[1].side)))

\* line 142
StepHash(self, loc) ==
    [loc EXCEPT !.pc = "sign", !.digest = <<order_digest(self, loc.encoded_data)>>]

\* a signing attempt that is made twice
SignsAfter_Retry(n) == n + 2

\* the calls of sign_recoverable a call has made after one more
SignsAfter(n) == n + 1

\* line 145 with the digest kept where every thread writes it: the signature
\* is over the digest the thread t1 computed last
StepSign_SharedDigest(self, loc, recid) ==
    [loc EXCEPT !.pc = "vfix", !.signs = SignsAfter(loc.signs),
                !.signature_bytes =
                   sign_recoverable(self.private_key,
                                    IF threads["t1"].digest # << >>
                                    THEN threads["t1"].digest[1] ELSE loc.digest[1],
                                    recid)]

\* line 145
StepSign(self, loc, recid) ==
    IF self.private_key = << >> THEN StepRaise(loc, "AttributeError")
    ELSE [loc EXCEPT !.pc = "vfix", !.signs = SignsAfter(loc.signs),
                     !.signature_bytes = sign_recoverable(self.private_key, loc.digest[1], recid)]

\* lines 147-152
StepVFix(loc) == [loc EXCEPT !.pc = "return", !.sig_mutable = v_fix(loc.signature_bytes)]

\* lines 155-169
StepReturn(self, loc) ==
    [loc EXCEPT !.pc = "done",
                !.order = <<PolySignedOrder(self, loc.args[1], loc.salt[1], loc.maker_amount[1],
                                            loc.taker_amount[1], side_str(loc.args[1].side),
                                            loc.sig_mutable)>>]

\* the intents of the concurrent calls: a Buy and a Sell at price 0.5 and
\* size 10.0, a token id that is no number (line 109 raises), a negative price
\* (line 131 raises)
ConcArgs ==
    {a \in OrderArgs :
       \/ /\ a.price = Float_0_5 /\ a.size.e = -49
          /\ \/ a.token_id = Token123456789 /\ a.side \in {[str |-> "BUY"], [int |-> 1]}
             \/ a.token_id = <<"a", "b", "c">> /\ a.side = [str |-> "BUY"]
       \/ a.price.sign = 1 /\ a.size.e = -50 /\ a.side = [str |-> "BUY"]}

\* a thread calls signer.sign_order(order_args)
Call(th) ==
    /\ instance # << >> /\ threads[th].pc = "idle"
    /\ \E order_args \in ConcArgs :
         threads' = [threads EXCEPT ![th] = [Idle EXCEPT !.pc = "parse", !.args = <<order_args>>]]
    /\ UNCHANGED <<appVars, phase, instance, ctor, refFee, now, last>>

\* a thread executes the statement it is at
Parse(th) ==
    /\ threads[th].pc = "parse"
    /\ threads' = [threads EXCEPT ![th] = StepParse(threads[th])]
    /\ UNCHANGED <<appVars, phase, instance, ctor, refFee, now, last>>
ReadClock(th) ==
    /\ threads[th].pc = "salt"
    /\ threads' = [threads EXCEPT ![th] = StepSalt(threads[th], now)]
    /\ UNCHANGED <<appVars, phase, instance, ctor, refFee, now, last>>
Pack(th) ==
    /\ threads[th].pc = "pack"
    /\ threads' = [threads EXCEPT ![th] = StepPack(instance[1], threads[th])]
    /\ UNCHANGED <<appVars, phase, instance, ctor, refFee, now, last>>
Hash(th) ==
    /\ threads[th].pc = "hash"
    /\ threads' = [threads EXCEPT ![th] = StepHash(instance[1], threads[th])]
    /\ UNCHANGED <<appVars, phase, instance, ctor, refFee, now, last>>
Sign(th) ==
    /\ threads[th].pc = "sign"
    /\ \E recid \in {0, 1} :
         threads' = [threads EXCEPT ![th] = StepSign(instance[1], threads[th], recid)]
    /\ UNCHANGED <<appVars, phase, instance, ctor, refFee, now, last>>
VFix(th) ==
    /\ threads[th].pc = "vfix"
    /\ threads' = [threads EXCEPT ![th] = StepVFix(threads[th])]
    /\ UNCHANGED <<appVars, phase, instance, ctor, refFee, now, last>>
Return(th) ==
    /\ threads[th].pc = "return"
    /\ threads' = [threads EXCEPT ![th] = StepReturn(instance[1], threads[th])]
    /\ instance' = <<SelfAfter(instance[1], threads[th].args[1])>>
    /\ UNCHANGED <<appVars, phase, ctor, refFee, now, last>>

\* the caller takes the order or the exception; the locals are gone
Take(th) ==
    /\ threads[th].pc \in {"done", "raised"}
    /\ threads' = [threads EXCEPT ![th] = Idle]
    /\ UNCHANGED <<appVars, phase, instance, ctor, refFee, now, last>>

\* one engine in delegated mode, constructed by the main thread
ConstructOne ==
    ConstructWith({Rep("a", 64)},
                  {[addr |-> [named |-> "0x1111111111111111111111111111111111111111"],
                    style |-> "lower"]},
                  {2}, {0})

Step(th) ==
    \/ Call(th) \/ Parse(th) \/ ReadClock(th) \/ Pack(th) \/ Hash(th)
    \/ Sign(th) \/ VFix(th) \/ Return(th) \/ Take(th)

NextConc == ConstructOne \/ Tick \/ \E th \in Threads : Step(th)

\* two threads calling sign_order on one instance, interleaved statement by
\* statement
SpecConc == Init /\ [][NextConc]_vars

\* the attribute _private_key of the instance is set to None by its holder
ClearKey ==
    /\ instance # << >> /\ instance[1].private_key # << >>
    /\ instance' = <<[instance[1] EXCEPT !.private_key = << >>]>>
    /\ UNCHANGED <<appVars, phase, ctor, refFee, now, last, threads>>

NextKeyless == ConstructOne \/ ClearKey \/ SignOrder \/ TakeResult \/ Tick

\* one engine whose keying material may be removed between calls
SpecKeyless == Init /\ [][NextKeyless]_vars

(***************************************************************************)
(* The programs around the signer: the script verify_hash.py, the strategy *)
(* of transmission.py, the manager's main, the listener of poly_cache and  *)
(* the trader engine_improved.                                             *)
(***************************************************************************)
\* a run of verify_hash.py in an environment that sets PK, FUNDER and
\* SIGNATURE_TYPE
VerifyHash ==
    /\ IF script = << >> THEN TRUE ELSE script[1].exited
    /\ \E KEY \in PrivateKeys, FUNDER \in Funders, SIGNATURE_TYPE \in SignatureTypes,
          recid \in {0, 1} :
         script' = <<[PK |-> KEY, FUNDER |-> FUNDER, SIGNATURE_TYPE |-> SIGNATURE_TYPE,
                      exited |-> FALSE,
                      run |-> verify_hash(KEY, FUNDER, SIGNATURE_TYPE, now, recid, refFee)]>>
    /\ UNCHANGED <<phase, instance, ctor, refFee, now, last, threads, strategy, manager,
                   engine, store_price, poly_cache, active_ids, sizing>>

\* the script's process ends; what it printed stays
ScriptExit ==
    /\ script # << >> /\ ~script[1].exited
    /\ script' = <<[script[1] EXCEPT !.exited = TRUE]>>
    /\ UNCHANGED <<phase, instance, ctor, refFee, now, last, threads, strategy, manager,
                   engine, store_price, poly_cache, active_ids, sizing>>

NextVerify == VerifyHash \/ ScriptExit \/ Tick

\* runs of verify_hash.py
SpecVerify == Init /\ [][NextVerify]_vars

\* strategy.on_market_data(mid_price), gap seconds after the last tick
OnMarketData ==
    /\ strategy.ticks < MaxTicks
    /\ \E mid_price \in MidPrices, gap \in TickGaps, pdf_over_std \in Sensitivities :
         strategy' = on_market_data(strategy, mid_price, strategy.clock + gap, pdf_over_std)
    /\ UNCHANGED <<phase, instance, ctor, refFee, now, last, threads, script, manager,
                   engine, store_price, poly_cache, active_ids, sizing>>

NextStrategy == OnMarketData

\* the ticks of the price stream on one strategy
SpecStrategy == Init /\ [][NextStrategy]_vars

\* manager.main up to the loop
ManagerStartup ==
    /\ manager.pc = "startup"
    /\ \E fetch_d \in FetchDurations, has_ids \in BOOLEAN, helper_d \in HelperDurations :
         manager' = Startup(manager, fetch_d, has_ids, helper_d)
    /\ UNCHANGED <<phase, instance, ctor, refFee, now, last, threads, script, strategy,
                   engine, store_price, poly_cache, active_ids, sizing>>

\* one iteration of the manager's loop
ManagerLoop ==
    /\ manager.pc = "loop"
    /\ \E stop_d \in StopDurations, fetch_d \in FetchDurations, sleep_d \in HalfSleeps,
          has_ids \in BOOLEAN, helper_d \in HelperDurations :
         manager' = LoopIteration(manager, stop_d, fetch_d, sleep_d, has_ids, helper_d)
    /\ UNCHANGED <<phase, instance, ctor, refFee, now, last, threads, script, strategy,
                   engine, store_price, poly_cache, active_ids, sizing>>

\* the trader process exits by itself
TraderCrash ==
    /\ manager.trader_process = "running"
    /\ manager' = [manager EXCEPT !.trader_process = "exited", !.running = @ - 1]
    /\ UNCHANGED <<phase, instance, ctor, refFee, now, last, threads, script, strategy,
                   engine, store_price, poly_cache, active_ids, sizing>>

NextManager == ManagerStartup \/ ManagerLoop \/ TraderCrash

InitManager == InitAll({"feeRateBps"}, StartTimes, {FALSE}, {18})

\* the manager, entered at any of the start times
SpecManager == InitManager /\ [][NextManager]_vars

\* the manager's process is scheduled: its main and its loop go on
SpecManagerFair ==
    InitManager /\ [][NextManager]_vars /\ WF_vars(ManagerStartup) /\ WF_vars(ManagerLoop)

\* the id fetcher, or anything else, writes active_ids.json
WriteIds(files) ==
    /\ \E file \in files \ {active_ids} : active_ids' = file
    /\ UNCHANGED <<phase, instance, ctor, refFee, now, last, threads, script, strategy,
                   manager, engine, store_price, poly_cache, sizing>>

\* poly_cache.py lines 84-86: the listener refreshes while it lacks ids
ListenerRefresh ==
    /\ poly_cache.NEEDS_NEW_IDS \/ ~cache_has_ids(poly_cache.POLY_MARKET_CACHE)
    /\ \E r \in {refresh_market_ids(poly_cache.POLY_MARKET_CACHE, poly_cache.NEEDS_NEW_IDS,
                                    active_ids)} :
         poly_cache' = [poly_cache EXCEPT !.POLY_MARKET_CACHE = r.cache,
                                          !.NEEDS_NEW_IDS = r.NEEDS_NEW_IDS]
    /\ UNCHANGED <<phase, instance, ctor, refFee, now, last, threads, script, strategy,
                   manager, engine, store_price, active_ids, sizing>>

\* poly_cache.py lines 103-192: the listener, subscribed, handles one message
Listen(messages) ==
    /\ ~poly_cache.NEEDS_NEW_IDS /\ cache_has_ids(poly_cache.POLY_MARKET_CACHE)
    /\ \E message \in messages :
         store_price' = OnMessage(poly_cache.POLY_MARKET_CACHE, store_price, message)
    /\ UNCHANGED <<phase, instance, ctor, refFee, now, last, threads, script, strategy,
                   manager, engine, poly_cache, active_ids, sizing>>

NextStore == WriteIds(MarketFiles) \/ ListenerRefresh \/ Listen(StoreMessages)

\* poly_cache run by itself: the listener and the file it reads
SpecStore == Init /\ [][NextStore]_vars

\* engine_improved.main lines 352-356: the client
MainClient ==
    /\ engine.main = "import"
    /\ engine' = [engine EXCEPT !.client = "ClobClient", !.main = "client"]
    /\ UNCHANGED <<phase, instance, ctor, refFee, now, last, threads, script, strategy,
                   manager, store_price, poly_cache, active_ids, sizing>>

\* engine_improved.main line 367
MainRefresh ==
    /\ engine.main = "client"
    /\ \E r \in {refresh_market_ids(engine.POLY_MARKET_CACHE, engine.NEEDS_NEW_IDS,
                                    active_ids)} :
         engine' = [engine EXCEPT !.POLY_MARKET_CACHE = r.cache,
                                  !.NEEDS_NEW_IDS = r.NEEDS_NEW_IDS,
                                  !.main = "listening"]
    /\ UNCHANGED <<phase, instance, ctor, refFee, now, last, threads, script, strategy,
                   manager, store_price, poly_cache, active_ids, sizing>>

\* engine_improved.main line 382: the signer, in delegated mode
MainSigner ==
    /\ engine.main = "listening" /\ phase = "start"
    /\ \E r \in {init(Rep("a", 64),
                      [addr |-> [named |-> "0x1111111111111111111111111111111111111111"],
                       style |-> "lower"],
                      1, now, 0, refFee)} :
         /\ phase' = IF r.err = "none" THEN "ready" ELSE "failed"
         /\ instance' = r.self
         /\ ctor' = <<[private_key_hex |-> Rep("a", 64),
                       funder |-> [addr |-> [named |-> "0x1111111111111111111111111111111111111111"],
                                   style |-> "lower"],
                       signature_type |-> 1, err |-> r.err, check |-> r.check]>>
         /\ engine' = [engine EXCEPT !.main = IF r.err = "none" THEN "running" ELSE "raised"]
    /\ UNCHANGED <<refFee, now, last, threads, script, strategy, manager, store_price,
                   poly_cache, active_ids, sizing>>

\* execute_trade(direction, ...) up to its return or to the await of
\* post_order; no other coroutine runs in between
ExecuteTrade ==
    /\ engine.awaiting = << >> /\ Len(engine.TRACKED_TRADES) < MaxTrades
    /\ \E direction \in {"UP", "DOWN"} :
         engine' = execute_trade(engine, store_price, instance, active_ids, direction, now, 0)
    /\ UNCHANGED <<phase, instance, ctor, refFee, now, last, threads, script, strategy,
                   manager, store_price, poly_cache, active_ids, sizing>>

\* client.post_order returns the response or raises, and execute_trade ends
PostReturned ==
    /\ engine.awaiting # << >>
    /\ \E outcome \in {"orderID", "PolyApiException", "Exception"} :
         engine' = post_returned(engine, outcome)
    /\ UNCHANGED <<phase, instance, ctor, refFee, now, last, threads, script, strategy,
                   manager, store_price, poly_cache, active_ids, sizing>>

NextEngine ==
    \/ MainClient \/ MainRefresh \/ MainSigner \/ WriteIds(MarketFiles) \/ ListenerRefresh
    \/ Listen(EngineMessages) \/ ExecuteTrade \/ PostReturned

InitEngine == InitAll({"feeRateBps"}, {1}, BOOLEAN, {18})

\* the trader: its main, its listener task and the calls of execute_trade
SpecEngine == InitEngine /\ [][NextEngine]_vars

\* lines 255-276 of execute_trade for the stored ask price
AlignSize ==
    /\ sizing.size = << >>
    /\ sizing' = [sizing EXCEPT !.size = <<SizeAlignment(FloatOfDecimal(sizing.cents, 2))>>]
    /\ UNCHANGED <<phase, instance, ctor, refFee, now, last, threads, script, strategy,
                   manager, engine, store_price, poly_cache, active_ids>>

\* the caller drops the size and takes another whole-cent ask price
NextAsk ==
    /\ sizing.size # << >>
    /\ \E c \in AskCents : sizing' = [cents |-> c, size |-> << >>]
    /\ UNCHANGED <<phase, instance, ctor, refFee, now, last, threads, script, strategy,
                   manager, engine, store_price, poly_cache, active_ids>>

NextSize == AlignSize \/ NextAsk

NextIds ==
    \/ WriteIds(IdFiles) \/ ListenerRefresh \/ MainClient \/ MainRefresh \/ MainSigner
    \/ ExecuteTrade

\* the file active_ids.json and the two caches read from it: the listener's
\* and the trader's, at each place that calls refresh_market_ids
SpecIds == Init /\ [][NextIds]_vars

InitSize == InitAll({"feeRateBps"}, {1}, {FALSE}, {18})

\* the size alignment on every whole-cent ask price from 0.15 to 0.85
SpecSize == InitSize /\ [][NextSize]_vars

(***************************************************************************)
(* The claims.                                                             *)
(***************************************************************************)
\* the sign_order call the constructor's check made
CheckCalls ==
    IF ctor # << >> /\ ctor[1].check # << >>
    THEN {[args |-> dummy_args, res |-> ctor[1].check[1].fast]} ELSE {}

\* the sign_order call a state shows the outcome of: the one the caller holds
\* the outcome of, and the one of the constructor's check in the states in
\* which the caller holds none (every construction is followed by one)
Calls ==
    IF last # << >> THEN {[args |-> last[1].args, res |-> last[1].res]} ELSE CheckCalls

\* those that returned a SignedOrder
ReturnedCalls == {c \in Calls : c.res.err = "none"}

\* the address of the key the constructor was given
CtorKeyAddress == AddressOfKey(from_hex(strip_0x(ctor[1].private_key_hex)).key)

\* the constructor's check compared and found a mismatch: another digest, or
\* another recovered address
CheckMismatch ==
    /\ ctor # << >> /\ ctor[1].check # << >>
    /\ ctor[1].check[1].recover_addr # << >>
    /\ \/ ctor[1].check[1].ref_hash # ctor[1].check[1].fast.digest
       \/ ctor[1].check[1].recover_addr[1] # CtorKeyAddress

\* what C1 says of every state but for the class of the exception
C1_Gate ==
    /\ CheckMismatch => phase = "failed" /\ instance = << >> /\ last = << >>
    /\ instance # << >> => ctor # << >> /\ ctor[1].err = "none" /\ ~CheckMismatch
                             /\ ctor[1].check[1].recover_addr = <<CtorKeyAddress>>
    /\ last # << >> => instance # << >> /\ last[1].res.err # "RuntimeError"
                         /\ last[1].res.err # "ConfigurationError"

C2_DigestLayout ==
    \A c \in ReturnedCalls :
       /\ c.res.digest[1] =
            keccak(<<[b |-> 25], [b |-> 1],
                     hash_struct("EIP712Domain", DomainSchema, DomainData).h,
                     keccak(c.res.encoded_data)>>)
       /\ ByteLen(c.res.digest[1].h) = 66
       /\ c.res.signature_bytes[1].rs.digest = c.res.digest[1]
       /\ instance # << >> => instance[1].domain_separator = c.res.digest[1].h[3]

\* an external call returned an order signed over a digest of that layout
C2_Witness ==
    /\ last # << >> /\ last[1].res.err = "none"
    /\ last[1].res.digest[1].h[1] = [b |-> 25] /\ last[1].res.digest[1].h[2] = [b |-> 1]
    /\ last[1].res.digest[1].h[3] = instance[1].domain_separator
    /\ last[1].res.digest[1].h[4] = keccak(last[1].res.encoded_data)

\* big-endian bytes of a machine-size natural in a 32-byte word
WordOfNat(n) ==
    AsSeq([i \in 1..32 |-> IF i <= 28 THEN [b |-> 0] ELSE [b |-> (n \div (256 ^ (32 - i))) % 256]])

\* the word of an address: twelve zero bytes, then its 20 bytes
WordOfAddress(a) == Rep([b |-> 0], 12) \o to_canonical_address(a)

\* the magnitudes of the token ids of the model that fit 256 bits
KnownTokenWord(token_id) ==
    CASE token_id = Token123456789 -> Rep([b |-> 0], 28) \o <<[b |-> 7], [b |-> 91], [b |-> 205], [b |-> 21]>>
      [] token_id = <<"0">> -> Rep([b |-> 0], 32)
      [] token_id = TokenMax256 -> Rep([b |-> 255], 32)

\* C3: the hashed buffer is the type hash and exactly twelve 32-byte words in
\* the order salt, maker, signer, taker, token id, maker amount, taker amount,
\* expiration, nonce, fee rate, side, signature type; integers big-endian and
\* left-padded, addresses in the low 20 bytes; the type string is the one of
\* the declared Order schema (line 83).
C3_BufferLayout ==
    \A c \in ReturnedCalls :
       /\ c.res.encoded_data =
            <<keccakText(encode_type("Order", OrderSchema("feeRateBps")))>>
              \o WordOfNat(c.res.order[1].salt)
              \o WordOfAddress(c.res.order[1].maker)
              \o WordOfAddress(c.res.order[1].signer)
              \o WordOfAddress(ZeroAddress)
              \o KnownTokenWord(c.args.token_id)
              \o WordOfNat(c.res.maker_amount)
              \o WordOfNat(c.res.taker_amount)
              \o WordOfNat(0) \o WordOfNat(0) \o WordOfNat(0)
              \o WordOfNat(c.res.side_int)
              \o WordOfNat(c.res.order[1].signatureType)
       /\ ByteLen(c.res.encoded_data) = 13 * 32

\* a Sell order for the token id 2^256 - 1 of a delegated engine was packed
C3_Witness ==
    /\ last # << >> /\ last[1].res.err = "none"
    /\ last[1].args.token_id = TokenMax256 /\ last[1].res.side_int = 1
    /\ last[1].res.order[1].maker # last[1].res.order[1].signer
    /\ ByteLen(last[1].res.encoded_data) = 416

\* the reference digest of a returned order: the structured-data encoder on
\* the declared domain and schema and the order's twelve values
ReferenceDigest(c) ==
    encode_typed_data(StructuredData("feeRateBps",
        OrderMessage("feeRateBps", PyInt(c.res.order[1].salt), c.res.order[1].maker,
                     c.res.order[1].signer, ParseInt(c.res.order[1].tokenId).v,
                     PyInt(c.res.maker_amount), PyInt(c.res.taker_amount),
                     PyInt(c.res.side_int), PyInt(c.res.order[1].signatureType))))

\* C4: digest equivalence: the digest of the fast path equals the digest of
\* the reference encoder for the same domain, schema and values, for every
\* returned order, and in the start-up check.
C4_DigestEquivalence ==
    /\ \A c \in ReturnedCalls :
          ReferenceDigest(c).err = "none" /\ c.res.digest[1] = ReferenceDigest(c).hash
    /\ ctor # << >> /\ ctor[1].check # << >> /\ ctor[1].check[1].ref_hash # << >>
         => ctor[1].check[1].ref_hash = ctor[1].check[1].fast.digest

\* a valid Sell intent for the token id 2^256 - 1 was signed
C4_Witness ==
    /\ last # << >> /\ last[1].res.err = "none"
    /\ last[1].args.token_id = TokenMax256 /\ last[1].res.side_int = 1
    /\ last[1].args.price = Float_0_5 /\ last[1].res.maker_amount = 10000000
    /\ last[1].res.digest[1] = ReferenceDigest([args |-> last[1].args, res |-> last[1].res]).hash

\* C5: recovery correctness: the address recovered from the digest and the
\* returned signature is the configured signer address, which is the address
\* of the key given to the constructor and the order's signer field, in
\* direct and in delegated (funder) mode.
C5_RecoveryCorrect ==
    /\ \A c \in ReturnedCalls :
          /\ RecoverAddress(c.res.digest[1], c.res.order[1].signature.hex)
               = [err |-> "none", v |-> CtorKeyAddress]
          /\ c.res.order[1].signer = CtorKeyAddress
    /\ instance # << >> => instance[1].signer_address = CtorKeyAddress

\* an order of a delegated engine (a funder, signature type 2) recovers to the
\* signer, which is not the maker
C5_Witness ==
    /\ last # << >> /\ last[1].res.err = "none"
    /\ ctor[1].funder # NoFunder /\ ctor[1].signature_type = 2
    /\ last[1].res.order[1].maker # last[1].res.order[1].signer
    /\ RecoverAddress(last[1].res.digest[1], last[1].res.order[1].signature.hex).v
         = instance[1].signer_address

\* round(x) of a finite float: the nearest integer, ties to even
RoundOfFloat(x) ==
    LET fl == FloorShift(x.m, x.e)
        up == /\ x.e < 0
              /\ Bit(x.m, (0 - x.e) - 1) = 1
              /\ (Sticky(x.m, (0 - x.e) - 1) \/ fl % 2 = 1)
        mag == IF up THEN fl + 1 ELSE fl
    IN IF x.sign = 1 THEN 0 - mag ELSE mag

\* a finite float greater than zero
FinitePositive(x) == x.cls = "fin" /\ x.sign = 0 /\ ~IsZero(x.m)

\* a price of the open interval (0, 1), a size greater than zero
ValidPrice(x) == FinitePositive(x) /\ BitLen(x.m) + x.e <= 0
ValidSize(x) == FinitePositive(x)

\* the prices 0.7 and 0.57, the sizes 5.0 and 10.0 of the model
Float_0_7 == [cls |-> "fin", sign |-> 0, m |-> <<9830, 6553, 9830, 1433>>, e |-> -53]
Float_0_57 == [cls |-> "fin", sign |-> 0, m |-> <<2621, 3932, 5898, 1167>>, e |-> -53]
Float_5_0 == [cls |-> "fin", sign |-> 0, m |-> <<0, 0, 0, 1280>>, e |-> -50]
Float_10_0 == [cls |-> "fin", sign |-> 0, m |-> <<0, 0, 0, 1280>>, e |-> -49]

\* C6 (as stated): for a Buy intent of a valid price and size, makerAmount is
\* round(size * price * 10^6) and takerAmount is round(size * 10^6); price
\* 0.70 and size 5.0 give 3500000 and 5000000.
C6_BuyAmountsRounded ==
    \A c \in ReturnedCalls :
       IsBuy(c.args.side) /\ ValidPrice(c.args.price) /\ ValidSize(c.args.size) =>
          /\ c.res.maker_amount
               = RoundOfFloat(FMul(FMul(c.args.size, c.args.price), Million))
          /\ c.res.taker_amount = RoundOfFloat(FMul(c.args.size, Million))
          /\ c.args.price = Float_0_7 /\ c.args.size = Float_5_0
               => c.res.maker_amount = 3500000 /\ c.res.taker_amount = 5000000

\* the intent of a call with the other side
Mirror(order_args) ==
    [order_args EXCEPT !.side = IF IsBuy(order_args.side) THEN [int |-> 1] ELSE [int |-> 0]]

\* C7: side symmetry: for the same price and size the Sell order's
\* makerAmount is the Buy order's takerAmount and its takerAmount the Buy
\* order's makerAmount; price 0.5 and size 10 give Buy 5000000/10000000 and
\* Sell 10000000/5000000.
C7_SideSymmetry ==
    \A c \in ReturnedCalls :
       /\ maker_amount(Mirror(c.args)) = [err |-> "none", v |-> c.res.taker_amount]
       /\ taker_amount(Mirror(c.args)) = [err |-> "none", v |-> c.res.maker_amount]
       /\ c.res.maker_amount
            = IntOfFloat(IF c.res.side_int = 0
                         THEN FMul(FMul(c.args.size, c.args.price), Million)
                         ELSE FMul(c.args.size, Million)).v
       /\ c.args.price = Float_0_5 /\ c.args.size = Float_10_0 =>
            /\ c.res.side_int = 0 => c.res.maker_amount = 5000000
                                      /\ c.res.taker_amount = 10000000
            /\ c.res.side_int = 1 => c.res.maker_amount = 10000000
                                      /\ c.res.taker_amount = 5000000

\* a Sell order at price 0.5 and size 10 was signed with the amounts of the
\* Buy order exchanged
C7_Witness ==
    /\ last # << >> /\ last[1].res.err = "none"
    /\ last[1].args.side = [str |-> "SELL"]
    /\ last[1].args.price = Float_0_5 /\ last[1].args.size = Float_10_0
    /\ last[1].res.order[1].makerAmount = "10000000"
    /\ last[1].res.order[1].takerAmount = "5000000"

\* a decimal unsigned integer below 2^256
ValidTokenId(token_id) ==
    /\ token_id # << >> /\ \A k \in 1..Len(token_id) : IsDigit(token_id[k])
    /\ Len(ParseInt(token_id).v.mag) <= 32

\* an intent the specification has rejected
InvalidIntent(order_args) ==
    \/ ~FinitePositive(order_args.price)
    \/ ~FinitePositive(order_args.size)
    \/ ~ValidTokenId(order_args.token_id)

\* C8 (as stated): an intent whose price or size is non-finite or
\* non-positive, or whose token id is not an unsigned 256-bit decimal integer,
\* is rejected with a ValidationError and no SignedOrder is returned.
C8_InvalidRejected ==
    last # << >> /\ InvalidIntent(last[1].args) =>
       last[1].res.err = "ValidationError" /\ last[1].res.order = << >>

\* C9 (as stated): the amounts of a returned order are non-negative, and an
\* intent whose scaled maker or taker amount is zero or negative is rejected
\* instead of being signed.
C9_AmountsPositive ==
    \A c \in ReturnedCalls :
       /\ c.res.maker_amount >= 0 /\ c.res.taker_amount >= 0
       /\ c.res.maker_amount > 0 /\ c.res.taker_amount > 0

\* C10: v-normalization: a raw recovery id 0 is the final byte 27 and a raw
\* recovery id 1 the final byte 28 of every returned signature; the final
\* byte is never 0 or 1, the signature has 65 bytes and its first 64 (r, s)
\* are those the curve library returned.
C10_VNormalized ==
    \A c \in ReturnedCalls :
       /\ c.res.signature_bytes[2].b \in {0, 1}
       /\ c.res.signature_bytes[2].b = 0 => c.res.order[1].signature.hex[2] = [b |-> 27]
       /\ c.res.signature_bytes[2].b = 1 => c.res.order[1].signature.hex[2] = [b |-> 28]
       /\ c.res.order[1].signature.hex[2].b \notin {0, 1}
       /\ c.res.order[1].signature.hex[1] = c.res.signature_bytes[1]
       /\ Len(c.res.order[1].signature.hex) = 2
       /\ ByteLen(c.res.order[1].signature.hex) = 65

\* an external call whose raw recovery id was 1 returned a signature ending
\* in 28
C10_Witness ==
    /\ last # << >> /\ last[1].res.err = "none"
    /\ last[1].res.signature_bytes[2] = [b |-> 1]
    /\ last[1].res.order[1].signature.hex[2] = [b |-> 28]

\* the signature types of delegated signing: proxy (1) and contract wallet (2)
DelegatedTypes == {1, 2}

\* C11 (as stated): the maker address is the funder address exactly when the
\* signature type is a delegated one and a funder is present; in every other
\* case, a direct signature type with a funder included, it is the signer
\* address.
C11_MakerByMode ==
    instance # << >> =>
       instance[1].maker_address =
          IF ctor[1].signature_type \in DelegatedTypes /\ Truthy(ctor[1].funder)
          THEN to_checksum_address(ctor[1].funder).v
          ELSE instance[1].signer_address

\* the threads that hold a returned order
DoneThreads == {th \in Threads : threads[th].pc = "done"}

\* an order's fields but the salt and the signature
OtherFields(order) ==
    <<order.maker, order.signer, order.taker, order.tokenId, order.makerAmount,
      order.takerAmount, order.expiration, order.nonce, order.feeRateBps, order.side,
      order.signatureType>>

\* C12 (as stated): salt uniqueness: two orders of sign_order for the same
\* maker whose other eleven fields are identical have different salts, two
\* calls within the same millisecond included.
C12_SaltsDiffer ==
    \A t1 \in DoneThreads, t2 \in DoneThreads :
       t1 # t2 /\ OtherFields(threads[t1].order[1]) = OtherFields(threads[t2].order[1])
          => threads[t1].order[1].salt # threads[t2].order[1].salt

\* a private key argument that is not 64 hexadecimal characters after an
\* optional 0x
MalformedKey(hex) ==
    \/ Len(strip_0x(hex)) # 64
    \/ \E k \in 1..Len(strip_0x(hex)) : strip_0x(hex)[k] \notin HexChars

\* C13 (as stated): construction with a malformed private key (wrong length
\* or non-hex) or an invalid funder address string fails with a
\* ConfigurationError at construction and leaves no instance to a caller.
C13_MalformedRejected ==
    ctor # << >> /\ (MalformedKey(ctor[1].private_key_hex) \/ ctor[1].funder.style = "malformed")
       => ctor[1].err = "ConfigurationError" /\ phase = "failed" /\ instance = << >>

\* C14 (as stated): sign_order checks that keying material is present at call
\* time: a call made while it is absent, on an intent whose conversions
\* succeed, fails with a SigningError and returns no SignedOrder.
C14_AbsentKeySigningError ==
    [][(/\ instance # << >> /\ instance[1].private_key = << >>
        /\ last = << >> /\ last' # << >>
        /\ last'[1].res.err \notin {"ValueError", "OverflowError"})
         => last'[1].res.err = "SigningError" /\ last'[1].res.order = << >>]_vars

\* C15 (as stated): the side field of a returned payload is the string "0"
\* for a Buy order and the string "1" for a Sell order.
C15_SideDigit ==
    \A c \in ReturnedCalls :
       c.res.order[1].side = IF IsBuy(c.args.side) THEN "0" ELSE "1"

\* C15 (amended): the side field of a returned payload is the string "BUY"
\* for a Buy order (side 0 or any spelling of "buy") and the string "SELL"
\* for every other side; the value 0 or 1 goes into the signed struct only.
C15_SideName ==
    \A c \in ReturnedCalls :
       /\ c.res.order[1].side = IF IsBuy(c.args.side) THEN "BUY" ELSE "SELL"
       /\ c.res.side_int = IF c.res.order[1].side = "BUY" THEN 0 ELSE 1
       /\ c.res.encoded_data[Len(c.res.encoded_data) - 32] = [b |-> c.res.side_int]

\* a Sell order given as side 1 was returned with the side field "SELL"
C15_Witness ==
    /\ last # << >> /\ last[1].res.err = "none"
    /\ last[1].args.side = [int |-> 1]
    /\ last[1].res.order[1].side = "SELL"

\* an address string written as 0x and the 40 hex characters of 20 bytes
IsHexAddress(a) ==
    a.style \in {"checksum", "lower"} /\ ByteLen(to_canonical_address(a)) = 20

\* C16: every returned SignedOrder has the zero address as taker, "0" as
\* expiration, nonce and feeRateBps, maker and signer written as 0x-prefixed
\* 20-byte addresses, and a signature of 0x and exactly 130 hex characters
\* (two per byte of r, s and v).
C16_PayloadShape ==
    \A c \in ReturnedCalls :
       /\ c.res.order[1].taker.addr = [named |-> "0x0000000000000000000000000000000000000000"]
       /\ IsHexAddress(c.res.order[1].taker)
       /\ c.res.order[1].expiration = "0"
       /\ c.res.order[1].nonce = "0"
       /\ c.res.order[1].feeRateBps = "0"
       /\ IsHexAddress(c.res.order[1].maker)
       /\ IsHexAddress(c.res.order[1].signer)
       /\ c.res.order[1].signature.prefix = "0x"
       /\ 2 * ByteLen(c.res.order[1].signature.hex) = 130

\* an order of an engine with a funder given in lower case was returned at a
\* clock reading other than 0
C16_Witness ==
    /\ last # << >> /\ last[1].res.err = "none"
    /\ last[1].res.order[1].salt # 0
    /\ ctor[1].funder.style = "lower"
    /\ last[1].res.order[1].maker.style = "checksum"
    /\ last[1].res.order[1].nonce = "0"
    /\ ByteLen(last[1].res.order[1].signature.hex) = 65

\* the call of a thread as one uninterrupted run of sign_order with the clock
\* reading t and the recovery id recid
Sequential(th, t, recid) == sign_order(instance[1], threads[th].args[1], t, recid)

\* C17: concurrent sign_order calls on one engine are safe without locking:
\* under every interleaving of the statements of two calls, a call returns
\* the order an uninterrupted run on its own intent returns, signed over the
\* digest of its own fields, and a call that raises raises what the
\* uninterrupted run raises.
C17_AsIfSequential ==
    \A th \in Threads :
       /\ threads[th].signature_bytes # << >> =>
             /\ threads[th].signature_bytes[1].rs.digest = threads[th].digest[1]
             /\ threads[th].digest
                  = Sequential(th, threads[th].salt[1], threads[th].signature_bytes[2].b).digest
       /\ threads[th].pc = "done" =>
             /\ threads[th].order
                  = Sequential(th, threads[th].salt[1], threads[th].signature_bytes[2].b).order
             /\ threads[th].encoded_data
                  = Sequential(th, threads[th].salt[1], threads[th].signature_bytes[2].b).encoded_data
             /\ RecoverAddress(threads[th].digest[1], threads[th].order[1].signature.hex)
                  = [err |-> "none", v |-> instance[1].signer_address]
       /\ threads[th].pc = "raised" =>
             /\ threads[th].err = Sequential(th, 0, 0).err
             /\ threads[th].order = << >>

\* the thread t2 holds its returned Sell order while t1, which read the
\* clock at the same millisecond for a Buy order, is between signing and
\* returning
C17_Witness ==
    /\ threads["t2"].pc = "done" /\ threads["t1"].pc = "vfix"
    /\ threads["t1"].args[1].side = [str |-> "BUY"]
    /\ threads["t2"].args[1].side = [int |-> 1]
    /\ threads["t1"].salt = threads["t2"].salt
    /\ threads["t1"].digest # threads["t2"].digest
    /\ threads["t2"].order[1].side = "SELL"

\* the attributes of the instance as lines 34-62 set them from the
\* constructor's arguments
SelfAtConstruction ==
    SelfFields(from_hex(strip_0x(ctor[1].private_key_hex)).key,
               CtorKeyAddress,
               IF Truthy(ctor[1].funder) THEN to_checksum_address(ctor[1].funder).v
               ELSE CtorKeyAddress,
               ctor[1].signature_type)

\* C18: sign_order changes no state of the engine: after every call,
\* returning or raising, signer address, maker address, signature type,
\* domain separator, order type hash and the address words are the values
\* construction set, and the outcome of a call is that of a call on the
\* engine as constructed: nothing persists from one call to the next.
C18_EngineUnchanged ==
    instance # << >> =>
       /\ instance[1] = SelfAtConstruction
       /\ instance[1].domain_separator
            = hash_struct("EIP712Domain", DomainSchema, DomainData).h
       /\ last # << >> =>
            last[1].res = sign_order(SelfAtConstruction, last[1].args, last[1].res.salt,
                                     IF last[1].res.signature_bytes = << >> THEN 0
                                     ELSE last[1].res.signature_bytes[2].b)

\* a call that raised was made after the clock had advanced since
\* construction, and the engine is as constructed
C18_Witness ==
    /\ last # << >> /\ last[1].res.err = "OverflowError"
    /\ last[1].res.salt # ctor[1].check[1].fast.salt
    /\ instance = <<SelfAtConstruction>>
    /\ ctor[1].signature_type = 2 /\ instance[1].signature_type = 2

\* the threads whose call has returned or raised
FinishedThreads == {th \in Threads : threads[th].pc \in {"done", "raised"}}

\* what a finished call shows of its computation, the signature left out
Outcome(loc) ==
    [pc |-> loc.pc, err |-> loc.err, token_id_int |-> loc.token_id_int,
     maker_amount |-> loc.maker_amount, taker_amount |-> loc.taker_amount,
     encoded_data |-> loc.encoded_data, digest |-> loc.digest,
     fields |-> IF loc.order = << >> THEN << >>
                ELSE <<loc.order[1].salt>> \o OtherFields(loc.order[1])]

C19_WitnessFailing ==
    /\ threads["t1"].pc = "raised" /\ threads["t2"].pc = "raised"
    /\ threads["t1"].args = threads["t2"].args
    /\ threads["t1"].err = "OverflowError" /\ threads["t2"].err = "OverflowError"

\* the number of bytes of a cell
CellBytes(c) ==
    IF "b" \in DOMAIN c THEN 1 ELSE IF "a20" \in DOMAIN c THEN 20
    ELSE IF "h" \in DOMAIN c THEN 32 ELSE 64

\* the cells of buf that are blocks of several bytes
Blocks(buf) == {i \in 1..Len(buf) : "b" \notin DOMAIN buf[i]}

\* the number of bytes of the first i cells of buf, blocks its set of blocks
BytesUpTo(buf, blocks, i) ==
    (i - Cardinality({p \in blocks : p <= i}))
      + 20 * Cardinality({p \in blocks : p <= i /\ CellBytes(buf[p]) = 20})
      + 32 * Cardinality({p \in blocks : p <= i /\ CellBytes(buf[p]) = 32})
      + 64 * Cardinality({p \in blocks : p <= i /\ CellBytes(buf[p]) = 64})

\* the number of cells that hold the first n bytes of buf: n less the bytes
\* that the blocks before the cut hold beyond one
CutAt(buf, blocks, n) ==
    CHOOSE j \in {n - (BytesUpTo(buf, blocks, p) - p) : p \in blocks \cup {0}} :
       j \in 0..Len(buf) /\ BytesUpTo(buf, blocks, j) = n

\* the cells of bytes 32k+1 .. 32k+32 of buf (k = 0 is the type hash)
WordAt(buf, blocks, k) ==
    SubSeq(buf, CutAt(buf, blocks, 32 * k) + 1, CutAt(buf, blocks, 32 * k + 32))

\* the unsigned integer of a big-endian word, as a Python int
UintOfWord(w) ==
    LET nz == {i \in 1..Len(w) : w[i] # [b |-> 0]}
        first == IF nz = {} THEN Len(w) + 1 ELSE CHOOSE i \in nz : \A j \in nz : i <= j
    IN [neg |-> FALSE, mag |-> AsSeq([i \in 1..(Len(w) - first + 1) |-> w[first + i - 1].b])]

\* the 20 bytes of the address of a word: what follows its first 12 bytes
AddressOfWord(w) == SubSeq(w, 13, Len(w))

\* the twelve values parsed back from a packed buffer
UnpackWith(buf, blocks) ==
    [salt |-> UintOfWord(WordAt(buf, blocks, 1)),
     maker |-> AddressOfWord(WordAt(buf, blocks, 2)),
     signer |-> AddressOfWord(WordAt(buf, blocks, 3)),
     taker |-> AddressOfWord(WordAt(buf, blocks, 4)),
     tokenId |-> UintOfWord(WordAt(buf, blocks, 5)),
     makerAmount |-> UintOfWord(WordAt(buf, blocks, 6)),
     takerAmount |-> UintOfWord(WordAt(buf, blocks, 7)),
     expiration |-> UintOfWord(WordAt(buf, blocks, 8)),
     nonce |-> UintOfWord(WordAt(buf, blocks, 9)),
     feeRateBps |-> UintOfWord(WordAt(buf, blocks, 10)),
     side |-> UintOfWord(WordAt(buf, blocks, 11)),
     signatureType |-> UintOfWord(WordAt(buf, blocks, 12))]
Unpack(buf) == UnpackWith(buf, Blocks(buf))

\* the twelve values of the struct a call packed
StructOf(c) ==
    [salt |-> PyInt(c.res.salt),
     maker |-> to_canonical_address(c.res.order[1].maker),
     signer |-> to_canonical_address(c.res.order[1].signer),
     taker |-> to_canonical_address(ZeroAddress),
     tokenId |-> ParseInt(c.args.token_id).v,
     makerAmount |-> PyInt(c.res.maker_amount),
     takerAmount |-> PyInt(c.res.taker_amount),
     expiration |-> PyInt(0),
     nonce |-> PyInt(0),
     feeRateBps |-> PyInt(0),
     side |-> PyInt(c.res.side_int),
     signatureType |-> PyInt(c.res.order[1].signatureType)]

\* C20: round trip: the twelve words parsed back from the packed buffer are
\* the twelve values that were packed, the token ids 0 and 2^256 - 1
\* included, and the buffer has room for nothing else; two calls that packed
\* different structs packed different buffers.
C20_PackRoundTrip ==
    /\ \A c \in ReturnedCalls :
          /\ ByteLen(c.res.encoded_data) = 32 + 12 * 32
          /\ Unpack(c.res.encoded_data) = StructOf(c)
    /\ \A c1 \in ReturnedCalls, c2 \in CheckCalls :
          StructOf(c1) # StructOf(c2) => c1.res.encoded_data # c2.res.encoded_data

\* the token id 2^256 - 1 was packed and parsed back as 32 bytes 255
C20_Witness ==
    /\ last # << >> /\ last[1].res.err = "none"
    /\ last[1].args.token_id = TokenMax256
    /\ Unpack(last[1].res.encoded_data).tokenId = [neg |-> FALSE, mag |-> Rep(255, 32)]
    /\ Unpack(last[1].res.encoded_data).maker # Unpack(last[1].res.encoded_data).signer

\* the token id 0 was packed and parsed back as 0
C20_WitnessZero ==
    /\ last # << >> /\ last[1].res.err = "none"
    /\ last[1].args.token_id = <<"0">>
    /\ Unpack(last[1].res.encoded_data).tokenId = PyInt(0)

\* the same side in the other representation: 0 and "BUY", 1 and "SELL"
OtherSpelling(side) ==
    CASE side = [int |-> 0] -> [str |-> "BUY"]
      [] side = [str |-> "BUY"] -> [int |-> 0]
      [] side = [int |-> 1] -> [str |-> "SELL"]
      [] side = [str |-> "SELL"] -> [int |-> 1]

\* the raw recovery id of a returned call
RawRecid(c) == c.res.signature_bytes[2].b

\* C21: the side is normalized once to Buy or Sell, integers and strings
\* interchangeable: side 0 and side "BUY" yield the same order, side 1 and
\* side "SELL" yield the same order, and within a call the hashed side word,
\* the roles of the two amounts and the side label of the payload agree.
C21_SideNormalized ==
    \A c \in ReturnedCalls :
       /\ c.args.side \in Sides =>
            sign_order(SelfAtConstruction,
                       [c.args EXCEPT !.side = OtherSpelling(c.args.side)],
                       c.res.salt, RawRecid(c)) = c.res
       /\ c.res.encoded_data[Len(c.res.encoded_data) - 32]
            = [b |-> IF c.res.order[1].side = "BUY" THEN 0 ELSE 1]
       /\ c.res.order[1].side \in {"BUY", "SELL"}
       /\ c.res.order[1].side = "BUY" <=> c.args.side \in {[int |-> 0], [str |-> "BUY"]}
       /\ c.res.maker_amount
            = IF c.res.order[1].side = "BUY" THEN ScaledNotional(c.args).v
              ELSE ScaledSize(c.args).v
       /\ c.res.taker_amount
            = IF c.res.order[1].side = "BUY" THEN ScaledSize(c.args).v
              ELSE ScaledNotional(c.args).v

\* a Buy order given as the integer 0 was returned with the side word 0, the
\* label "BUY" and the Buy roles of the amounts 0.7 x 5.0
C21_Witness ==
    /\ last # << >> /\ last[1].res.err = "none"
    /\ last[1].args.side = [int |-> 0]
    /\ last[1].args.price = Float_0_7 /\ last[1].args.size = Float_5_0
    /\ last[1].res.order[1].side = "BUY"
    /\ last[1].res.maker_amount = 3500000 /\ last[1].res.taker_amount = 5000000
    /\ last[1].res.encoded_data[Len(last[1].res.encoded_data) - 32] = [b |-> 0]

\* the value a decimal string of the payload denotes, among the given values
Denoted(str, values) ==
    IF \E n \in values : ToString(n) = str
    THEN <<CHOOSE n \in values : ToString(n) = str>> ELSE << >>

\* the side a label of the payload denotes
DenotedSide(label) ==
    CASE label = "BUY" -> <<0>> [] label = "SELL" -> <<1>> [] OTHER -> << >>

\* the message the fields of a payload denote, << >> if one denotes nothing;
\* amounts are the values the strings of the amounts may denote
PayloadMessage(o, amounts) ==
    LET maker_amt == Denoted(o.makerAmount, amounts)
        taker_amt == Denoted(o.takerAmount, amounts)
        zeros == <<Denoted(o.expiration, {0}), Denoted(o.nonce, {0}),
                   Denoted(o.feeRateBps, {0})>>
        side == DenotedSide(o.side)
        token == ParseInt(o.tokenId)
    IN IF \/ maker_amt = << >> \/ taker_amt = << >> \/ side = << >>
          \/ \E k \in 1..3 : zeros[k] = << >>
          \/ token.err # "none"
       THEN << >>
       ELSE <<[OrderMessage("feeRateBps", PyInt(o.salt), o.maker, o.signer, token.v,
                            PyInt(maker_amt[1]), PyInt(taker_amt[1]), PyInt(side[1]),
                            PyInt(o.signatureType))
                 EXCEPT !["taker"] = o.taker,
                        !["expiration"] = PyInt(zeros[1][1]),
                        !["nonce"] = PyInt(zeros[2][1]),
                        !["feeRateBps"] = PyInt(zeros[3][1])]>>

\* the digest of the payload's fields under the domain of the engine
PayloadDigest(o, amounts) ==
    IF PayloadMessage(o, amounts) = << >> THEN [err |-> "ValueError", hash |-> keccak(<< >>)]
    ELSE encode_typed_data(StructuredData("feeRateBps", PayloadMessage(o, amounts)[1]))

\* C23: for every returned order each value serialized in the payload denotes
\* the value that was packed into the hashed struct in that call (the salt,
\* the two addresses, the taker, the token id, the two amounts in their
\* roles, the three zeros, the side and the signature type), so re-hashing
\* the payload's fields under the same domain reproduces the signed digest.
C23_PayloadDenotesPacked ==
    \A c \in ReturnedCalls :
       LET o == c.res.order[1]
       IN /\ o.salt = c.res.salt
          /\ Denoted(o.makerAmount, {c.res.maker_amount, c.res.taker_amount})
               = <<c.res.maker_amount>>
          /\ Denoted(o.takerAmount, {c.res.maker_amount, c.res.taker_amount})
               = <<c.res.taker_amount>>
          /\ DenotedSide(o.side) = <<c.res.side_int>>
          /\ c.res.encoded_data
               = <<keccakText(OrderTypeString)>>
                   \o WordOfNat(o.salt) \o WordOfAddress(o.maker) \o WordOfAddress(o.signer)
                   \o WordOfAddress(o.taker) \o ToBytes32(ParseInt(o.tokenId).v).bytes
                   \o WordOfNat(c.res.maker_amount) \o WordOfNat(c.res.taker_amount)
                   \o WordOfNat(0) \o WordOfNat(0) \o WordOfNat(0)
                   \o WordOfNat(c.res.side_int) \o WordOfNat(o.signatureType)
          /\ PayloadDigest(o, {c.res.maker_amount, c.res.taker_amount})
               = [err |-> "none", hash |-> c.res.digest[1]]

\* a Sell order of 10.0 at 0.7 of a delegated engine was returned: the
\* payload reads makerAmount "10000000", takerAmount "7000000", side "SELL"
C23_Witness ==
    /\ last # << >> /\ last[1].res.err = "none"
    /\ last[1].args.side = [str |-> "SELL"]
    /\ last[1].res.order[1].makerAmount = "10000000"
    /\ last[1].res.order[1].takerAmount = "7000000"
    /\ last[1].res.order[1].side = "SELL"
    /\ last[1].res.order[1].maker # last[1].res.order[1].signer
    /\ last[1].res.maker_amount = 10000000

\* C22: every run of verify_hash.py whose signer was constructed finds its
\* fast digest equal to the digest value it takes from the reference
\* encoder and reports HASH VERIFIED.  The runs of the script refute it: the
\* fast digest is the 32 bytes of the keccak, the value compared with it is
\* header + body of the SignableMessage, 64 bytes.
C22_HashVerified ==
    (script # << >> /\ script[1].run.err = "none")
        => /\ script[1].run.fast_digest = script[1].run.slow_digest
           /\ script[1].run.report = "HASH VERIFIED"

\* what the strategy has printed of its trigger: the fires and the resets
TriggerLog(out) == SelectSeq(out, LAMBDA line : line \in {"EXECUTE", "RELOAD"})

\* the tick that leads to the next state fires, or resets
TickFires ==
    \/ strategy'.is_in_swing /\ ~strategy.is_in_swing
    \/ Len(SelectSeq(strategy'.out, LAMBDA line : line = "EXECUTE"))
         > Len(SelectSeq(strategy.out, LAMBDA line : line = "EXECUTE"))
TickResets ==
    \/ ~strategy'.is_in_swing /\ strategy.is_in_swing
    \/ Len(SelectSeq(strategy'.out, LAMBDA line : line = "RELOAD"))
         > Len(SelectSeq(strategy.out, LAMBDA line : line = "RELOAD"))

\* a tick fires only out of the swing on a jump beyond 0.02, resets only in
\* the swing on a jump below 0.005, and leaves is_in_swing as it is on a jump
\* from 0.005 to 0.02 and when it computes no jump
SchmittStep ==
    /\ TickFires =>
         /\ ~strategy.is_in_swing /\ strategy'.is_in_swing
         /\ strategy'.predicted_jump # << >>
         /\ FGt(FAbs(strategy'.predicted_jump[1]), ENTRY_THRESHOLD)
    /\ TickResets =>
         /\ strategy.is_in_swing /\ ~strategy'.is_in_swing
         /\ strategy'.predicted_jump # << >>
         /\ FLt(FAbs(strategy'.predicted_jump[1]), RESET_THRESHOLD)
    /\ (strategy'.ticks > strategy.ticks /\ strategy'.predicted_jump # << >>
          /\ FGe(FAbs(strategy'.predicted_jump[1]), RESET_THRESHOLD)
          /\ FLe(FAbs(strategy'.predicted_jump[1]), ENTRY_THRESHOLD))
         => strategy'.is_in_swing = strategy.is_in_swing
    /\ strategy'.predicted_jump = << >> => strategy'.is_in_swing = strategy.is_in_swing

\* fires and resets alternate from the first fire on, and the strategy is in
\* the swing exactly after a fire
FiresAlternate ==
    /\ \A i \in 1..Len(TriggerLog(strategy.out)) :
         TriggerLog(strategy.out)[i] = IF i % 2 = 1 THEN "EXECUTE" ELSE "RELOAD"
    /\ strategy.is_in_swing <=> Len(TriggerLog(strategy.out)) % 2 = 1

\* C24: on_market_data is a Schmitt trigger: it fires only when is_in_swing
\* is false and |predicted_jump| > 0.02, resets only when is_in_swing is true
\* and |predicted_jump| < 0.005, a tick with 0.005 <= |predicted_jump| <= 0.02
\* never changes is_in_swing, and there is a reset between any two fires.
C24_SchmittTrigger == [][SchmittStep]_vars /\ []FiresAlternate

\* a strategy that fired, reset and fired again, its last tick before the
\* second fire having left it out of the swing
C24_Witness == TriggerLog(strategy.out) = <<"EXECUTE", "RELOAD", "EXECUTE">>

\* a fetch of the ids finds no trader of the manager running, and one of
\* the loop follows the stop of the trader within the first five seconds
FetchWithoutTrader ==
    manager.last_fetch # << >> =>
        /\ manager.last_fetch[1].running = 0
        /\ manager.last_fetch[1].where = "loop" =>
             /\ manager.last_fetch[1].trader_process = "None"
             /\ manager.last_fetch[1].observed < FetchSeconds

\* a step that starts a trader is an iteration of the loop that read
\* seconds_past_quarter as 5 or more
StartAfterFive ==
    manager'.running > manager.running
        => manager.pc = "loop" /\ seconds_past_quarter(manager.t) >= FetchSeconds

\* C25: in the manager's loop the id fetcher runs only while no trader
\* process started by the manager is running (the trader is stopped before
\* the fetch), the loop runs the fetcher at most once per quarter-hour
\* window, and a trader is started only when seconds_past_quarter is at
\* least 5.
C25_FetchAndTradeApart ==
    [](FetchWithoutTrader /\ manager.fetches <= 1) /\ [][StartAfterFive]_vars

\* the loop has stopped the trader it had started and fetched the ids, and
\* the trader of the new window is running
C25_Witness ==
    /\ manager.last_fetch # << >> /\ manager.last_fetch[1].where = "loop"
    /\ manager.last_fetch[1].stopped
    /\ manager.fetches = 1 /\ manager.running = 1 /\ manager.trader_process = "running"

\* C26: in every quarter-hour window the manager stops the trader and runs
\* the id fetcher within the first 5 seconds, and a trader runs again for
\* the rest of the window: no quarter hour that began while the loop ran
\* ends without the fetch of the loop.  The manager's runs refute it: an
\* iteration that polls the last trades across the turn of the quarter hour
\* resumes after second 5, and the window passes with the old trader and
\* without a fetch.
C26_EveryWindowFetched == ~manager.missed

\* the ask price and the spread the store holds for a side
StoredAsk(side) == IF side = "UP" THEN store_price.UP_askprice ELSE store_price.DOWN_askprice
StoredSpread(side) == IF side = "UP" THEN store_price.spread_up ELSE store_price.spread_down

\* the step is a call of execute_trade that hands an order to post_order
PostsOrder == engine.awaiting = << >> /\ engine'.awaiting # << >>

\* what holds of a call that posts: the signer and the client are there, the
\* side's token id is cached, the stored ask price is within [0.15, 0.85],
\* the stored spread below 0.02, and DRY_RUN_MODE is false
PostedOnlyIfChecked ==
    PostsOrder =>
        /\ instance # << >> /\ engine.client # "None"
        /\ engine'.POLY_MARKET_CACHE[engine'.awaiting[1].side] # << >>
        /\ engine'.awaiting[1].order.tokenId
             = engine'.POLY_MARKET_CACHE[engine'.awaiting[1].side]
        /\ FGe(StoredAsk(engine'.awaiting[1].side), PriceFloor)
        /\ FLe(StoredAsk(engine'.awaiting[1].side), PriceCeiling)
        /\ FLt(StoredSpread(engine'.awaiting[1].side), SPREAD_THRESHOLD)
        /\ ~engine.DRY_RUN_MODE
        /\ engine'.TRACKED_TRADES = engine.TRACKED_TRADES

\* TRACKED_TRADES changes only when post_order returns the response of an
\* order that was posted, by the trade of that order appended
AppendedOnlyAfterPost ==
    engine'.TRACKED_TRADES # engine.TRACKED_TRADES =>
        /\ engine.awaiting # << >> /\ engine'.awaiting = << >>
        /\ engine'.call[1].outcome = "orderID"
        /\ engine'.TRACKED_TRADES =
             Append(engine.TRACKED_TRADES,
                    [side |-> engine.awaiting[1].side, entry |-> engine.awaiting[1].entry,
                     spread |-> engine.awaiting[1].spread, order_id |-> "orderID"])

\* C27: execute_trade signs and posts an order only if the signer and the
\* client are initialized, a token id for the side is cached, the stored ask
\* price is within [0.15, 0.85], the stored spread is below 0.02 and
\* DRY_RUN_MODE is false; in every other case, and whenever signing or
\* posting raises, it posts nothing and leaves TRACKED_TRADES unchanged; a
\* trade is appended only after post_order has returned without exception.
C27_PostOnlyChecked == [][PostedOnlyIfChecked /\ AppendedOnlyAfterPost]_vars

\* post_order has returned the id of an order: the trade is tracked
C27_Witness ==
    /\ Len(engine.TRACKED_TRADES) = 1 /\ engine.TRACKED_TRADES[1].order_id = "orderID"
    /\ engine.call # << >> /\ engine.call[1].outcome = "orderID"

\* the chosen size is a multiple of 100 / gcd(price_cents, 100), so that
\* price_cents * valid_size_cents is divisible by 100
SizeOnStep(z) ==
    /\ z.step_cents = 100 \div gcd(z.price_cents, 100)
    /\ z.valid_size_cents % z.step_cents = 0
    /\ (z.price_cents * z.valid_size_cents) % 100 = 0

\* the chosen size is the smallest multiple of the step not below the raw size
SizeSmallest(z) ==
    /\ FGe(FloatOfInt(z.valid_size_cents), z.raw_size_cents)
    /\ FLt(FloatOfInt(z.valid_size_cents - z.step_cents), z.raw_size_cents)

\* the notional valid_size * execution_price is at least 1.00
NotionalReached(z) == FGe(z.total_cost, min_notional)

\* C28: for every execution price in whole cents the size chosen by
\* execute_trade is a multiple of 100 / gcd(price_cents, 100), so that
\* price_cents * valid_size_cents is divisible by 100, it is the smallest such
\* multiple not below the raw size, and the notional valid_size *
\* execution_price is at least 1.00.  The size for the ask price 0.18 refutes
\* the last part: 5.0 shares at 0.19999999999999998 cost 0.9999999999999999.
C28_SizeAligned ==
    sizing.size # << >> =>
        /\ SizeOnStep(sizing.size[1])
        /\ SizeSmallest(sizing.size[1])
        /\ NotionalReached(sizing.size[1])

\* the ids of a file that holds both
IdsOf(file) == [UP |-> file.UP, DOWN |-> file.DOWN]

\* refresh_market_ids called on the cache with the file as it is: True
\* leaves the two ids of the file cached; a file that is missing or lacks
\* an id gives False and the cache as it was
RefreshContract(cache, needs_new_ids) ==
    /\ refresh_market_ids(cache, needs_new_ids, active_ids).ok
         => refresh_market_ids(cache, needs_new_ids, active_ids).cache = IdsOf(active_ids)
    /\ (~active_ids.exists \/ active_ids.UP = << >> \/ active_ids.DOWN = << >>)
         => /\ ~refresh_market_ids(cache, needs_new_ids, active_ids).ok
            /\ refresh_market_ids(cache, needs_new_ids, active_ids).cache = cache

\* the contract at each place that calls refresh_market_ids: the listener's
\* loop (poly_cache.py line 85), main (engine_improved.py line 367) and
\* execute_trade when the side's id is missing (line 230)
RefreshAtCallSites ==
    /\ (poly_cache.NEEDS_NEW_IDS \/ ~cache_has_ids(poly_cache.POLY_MARKET_CACHE))
         => RefreshContract(poly_cache.POLY_MARKET_CACHE, poly_cache.NEEDS_NEW_IDS)
    /\ engine.main = "client"
         => RefreshContract(engine.POLY_MARKET_CACHE, engine.NEEDS_NEW_IDS)
    /\ (instance # << >> /\ engine.client # "None"
          /\ (engine.POLY_MARKET_CACHE.UP = << >> \/ engine.POLY_MARKET_CACHE.DOWN = << >>))
         => RefreshContract(engine.POLY_MARKET_CACHE, engine.NEEDS_NEW_IDS)

\* a cache that changes takes both ids of the file read by the step
ReplacedTogether ==
    /\ poly_cache'.POLY_MARKET_CACHE # poly_cache.POLY_MARKET_CACHE
         => /\ poly_cache'.POLY_MARKET_CACHE = IdsOf(active_ids)
            /\ cache_has_ids(poly_cache'.POLY_MARKET_CACHE)
    /\ engine'.POLY_MARKET_CACHE # engine.POLY_MARKET_CACHE
         => /\ engine'.POLY_MARKET_CACHE = IdsOf(active_ids)
            /\ cache_has_ids(engine'.POLY_MARKET_CACHE)

\* the two ids of a cache are those of one file, or both absent
FromOneFile(cache) ==
    cache = CacheAtImport \/ \E file \in IdFiles : cache_has_ids(cache) /\ cache = IdsOf(file)

\* C29: after refresh_market_ids returns True the cached UP id and DOWN id
\* both equal the ids of active_ids.json read by that call, the two ids are
\* always replaced together and never come from different files' contents,
\* and when the file is missing or lacks either id the cache is left
\* unchanged and False is returned.
C29_IdsFromOneFile ==
    /\ [](RefreshAtCallSites /\ FromOneFile(poly_cache.POLY_MARKET_CACHE)
            /\ FromOneFile(engine.POLY_MARKET_CACHE))
    /\ [][ReplacedTogether]_vars

\* the listener and the trader have each loaded the ids of a file, the file
\* having changed its DOWN id, not its UP id, in between
C29_Witness ==
    /\ poly_cache.POLY_MARKET_CACHE = [UP |-> UpId, DOWN |-> DownId]
    /\ engine.POLY_MARKET_CACHE = [UP |-> UpId, DOWN |-> OtherId]
    /\ active_ids = NoFile

\* the float s is d rounded to 3 decimals: a number of thousandths, half a
\* thousandth from d at most
RoundedTo3(s, d) ==
    \E k \in (PyRound(FMul(d, FloatOfInt(1000))).v - 1)..(PyRound(FMul(d, FloatOfInt(1000))).v + 1) :
        /\ k >= 0
        /\ FCmp(s, FloatOfDecimal(k, 3)) = 0
        /\ FLe(FAbs(FSub(s, d)), FloatOfDecimal(5, 4))

\* the spread of a side is 0 unless its ask and bid are positive, and then
\* |ask - bid| rounded to 3 decimals
SpreadOf(spread, ask, bid) ==
    IF FGt(ask, FZero(0)) /\ FGt(bid, FZero(0))
    THEN RoundedTo3(spread, FAbs(FSub(ask, bid)))
    ELSE FCmp(spread, FZero(0)) = 0
SpreadsOf(store) ==
    /\ SpreadOf(store.spread_up, store.UP_askprice, store.UP_bidprice)
    /\ SpreadOf(store.spread_down, store.DOWN_askprice, store.DOWN_bidprice)

\* the fields of a side
SideFields(store, side) ==
    IF side = "UP" THEN <<store.UP_askprice, store.UP_bidprice, store.spread_up>>
    ELSE <<store.DOWN_askprice, store.DOWN_bidprice, store.spread_down>>

\* the token a message names: the asset of its first change
MessageSide(cache, message) ==
    IF message.price_changes = << >> THEN "None"
    ELSE resolve_side_for_token(cache, message.price_changes[1].asset_id)

\* the store after a message: as it was unless the message is a
\* price_change for a token that resolves to a side, and then with the
\* other side's fields as they were and the spreads as defined
MessageEffect(cache, store, message, after) ==
    /\ message.event_type # "price_change" => after = store
    /\ MessageSide(cache, message) = "None" => after = store
    /\ MessageSide(cache, message) = "UP" => SideFields(after, "DOWN") = SideFields(store, "DOWN")
    /\ MessageSide(cache, message) = "DOWN" => SideFields(after, "UP") = SideFields(store, "UP")
    /\ after # store => SpreadsOf(after)

\* every message the subscribed listener may receive in this state
ListenerFrame ==
    (~poly_cache.NEEDS_NEW_IDS /\ cache_has_ids(poly_cache.POLY_MARKET_CACHE)) =>
        \A message \in StoreMessages :
            MessageEffect(poly_cache.POLY_MARKET_CACHE, store_price, message,
                          OnMessage(poly_cache.POLY_MARKET_CACHE, store_price, message))

\* a step that changes the store writes the fields of one side
OneSideWritten ==
    store_price' # store_price =>
        /\ \/ SideFields(store_price', "UP") = SideFields(store_price, "UP")
           \/ SideFields(store_price', "DOWN") = SideFields(store_price, "DOWN")
        /\ SpreadsOf(store_price')

\* C30: the listener updates the price store only on price_change events for
\* a token id that resolves to UP or DOWN, and writes only the fields of
\* that side; last_trade_price and book events leave every price and spread
\* unchanged; after every update each spread is 0 unless both ask and bid of
\* its side are positive, and then |ask - bid| rounded to 3 decimals.
C30_StoreFrame == [](ListenerFrame /\ SpreadsOf(store_price)) /\ [][OneSideWritten]_vars

\* the UP side holds the ask 0.5206 and the bid 0.5, its spread is 0.021,
\* and the DOWN side is as at import
C30_Witness ==
    /\ FCmp(store_price.UP_askprice, FloatOfDecimal(5206, 4)) = 0
    /\ FCmp(store_price.UP_bidprice, FloatOfDecimal(5, 1)) = 0
    /\ FCmp(store_price.spread_up, FloatOfDecimal(21, 3)) = 0
    /\ SideFields(store_price, "DOWN") = SideFields(StoreAtImport, "DOWN")
====
